---- MODULE Spec2Model ----
(***************************************************************************)
(* calf: Command Argument Loading Functions.                               *)
(*                                                                         *)
(* A model of calf/__init__.py: the parameter-info refiner, the loader     *)
(* selection, the argument loaders, the overflow-argument broker and the   *)
(* CalfRunner pipeline.  Python strings are sequences of one-character     *)
(* strings, so that the regular expressions and the string operations of   *)
(* the code are computed character by character.                           *)
(***************************************************************************)
EXTENDS Integers, Sequences, FiniteSets, TLC

VARIABLES
    func,          \* the callable given to CalfRunner.__call__
    args,          \* the command line tokens given to CalfRunner.__call__
    selectors,     \* CalfRunner._selectors
    pc,            \* position of the invocation in the pipeline
    phases,        \* the pipeline phases executed so far, in order
    param_info,    \* CalfInfo.param_info
    pi,            \* number of parameters add_param has handled in get_calf
    consulted,     \* the selector.match calls made so far: <<param, index>>
    arg_loaders,   \* CalfInfo.arg_loaders (an ordered dictionary)
    registered,    \* VarArgBroker._registered
    parser,        \* the arguments declared to the ArgumentParser
    namespace,     \* the parsed argparse.Namespace
    others,        \* the tokens the flag engine left unclaimed
    remains,       \* the merged token sequence the broker distributes
    li,            \* number of loaders ns2params has run
    pos,           \* the positional arguments built by ns2params
    kwd,           \* the keyword arguments built by ns2params
    exc,           \* how the invocation terminated abnormally, or "none"
    stderr,        \* the diagnostics written to the error stream
    ncalls,        \* how many times the target callable was entered
    received,      \* what the callable received and returned
    result,        \* what CalfRunner.__call__ returned
    pinfo,         \* the ParamInfo the refiner harness works on
    pinfo_hist,    \* the ParamInfo after each application of the refiner
    doc,           \* the text given to indented_groups or to a doc parser
    groups,        \* what list(indented_groups(doc)) gave
    docret,        \* what the doc parser returned for doc
    calls          \* the earlier invocations of the runner, in order

vars == <<func, args, selectors, pc, phases, param_info, pi, consulted,
          arg_loaders, registered, parser, namespace, others, remains, li,
          pos, kwd, exc, stderr, ncalls, received, result, pinfo,
          pinfo_hist, doc, groups, docret, calls>>

pipeline_vars == <<func, args, selectors, pc, phases, param_info, pi,
                   consulted, arg_loaders, registered, parser, namespace,
                   others, remains, li, pos, kwd, exc, stderr, ncalls,
                   received, result, calls>>

refiner_vars == <<pinfo, pinfo_hist>>

-----------------------------------------------------------------------------
(* Bounds of the model *)

\* longest command line
MaxArgs == 3

\* most pieces a raw parameter description is assembled from
MaxPieces == 3

\* most times the refiner harness applies the refiner
MaxRefine == 2

-----------------------------------------------------------------------------
(* Python strings and values *)

Digits == {"0", "1", "2", "3", "4", "5", "6", "7", "8", "9"}

Lower == {"a", "b", "c", "d", "e", "f", "g", "h", "i", "j", "k", "l", "m",
          "n", "o", "p", "q", "r", "s", "t", "u", "v", "w", "x", "y", "z"}

Upper == {"A", "B", "C", "D", "E", "F", "G", "H", "I", "J", "K", "L", "M",
          "N", "O", "P", "Q", "R", "S", "T", "U", "V", "W", "X", "Y", "Z"}

\* the character class [A-Za-z0-9]
AlNum == Lower \cup Upper \cup Digits

\* the character class \s
Whitespace == {" ", "\t", "\n", "\r", "\f"}

\* the characters '.' matches (no re.DOTALL)
IsDot(c) == c # "\n"

DigitVal == [c \in Digits |->
    CASE c = "0" -> 0 [] c = "1" -> 1 [] c = "2" -> 2 [] c = "3" -> 3
      [] c = "4" -> 4 [] c = "5" -> 5 [] c = "6" -> 6 [] c = "7" -> 7
      [] c = "8" -> 8 [] c = "9" -> 9]

\* s[i:] of Python, with i counted from 0
StrFrom(s, i) == SubSeq(s, i + 1, Len(s))

\* s[:i] of Python
StrTo(s, i) == SubSeq(s, 1, i)

\* 'sub in s' of Python strings
IsSubstring(sub, s) ==
    \E i \in 0..(Len(s) - Len(sub)) : SubSeq(s, i + 1, i + Len(sub)) = sub

\* number of leading characters of s that are in the class cls
RECURSIVE LeadingRun(_, _)
LeadingRun(s, cls) ==
    IF s # <<>> /\ Head(s) \in cls THEN 1 + LeadingRun(Tail(s), cls) ELSE 0

\* number of trailing characters of s that are in the class cls
RECURSIVE TrailingRun(_, _)
TrailingRun(s, cls) ==
    IF s # <<>> /\ s[Len(s)] \in cls
    THEN 1 + TrailingRun(StrTo(s, Len(s) - 1), cls) ELSE 0

\* str.strip()
Strip(s) ==
    LET l == LeadingRun(s, Whitespace)
    IN  IF l = Len(s) THEN <<>>
        ELSE SubSeq(s, l + 1, Len(s) - TrailingRun(s, Whitespace))

\* index (from 1) of the first occurrence of the character c in s, or 0
FirstIndex(s, c) ==
    IF \E i \in 1..Len(s) : s[i] = c
    THEN CHOOSE i \in 1..Len(s) :
            s[i] = c /\ \A j \in 1..(i - 1) : s[j] # c
    ELSE 0

\* str.partition(c): the text before and after the first c
Partition(s, c) ==
    LET i == FirstIndex(s, c)
    IN  IF i = 0 THEN [head |-> s, sep |-> <<>>, tail |-> <<>>]
        ELSE [head |-> StrTo(s, i - 1), sep |-> <<c>>, tail |-> StrFrom(s, i)]

None == [t |-> "None"]

NO_DEFAULT == [t |-> "NO_DEFAULT"]

VStr(s) == [t |-> "str", v |-> s]

VInt(n) == [t |-> "int", v |-> n]

VBool(b) == [t |-> "bool", v |-> b]

VList(l) == [t |-> "list", v |-> l]

\* an instance of the named tuple Name(firstname, lastname)
VName(first, last) == [t |-> "Name", v |-> <<first, last>>]

\* int(s) of a string of decimal digits
RECURSIVE DecimalValue(_)
DecimalValue(s) ==
    IF s = <<>> THEN 0
    ELSE 10 * DecimalValue(StrTo(s, Len(s) - 1)) + DigitVal[s[Len(s)]]

\* str(n) of a natural number
RECURSIVE DecimalString(_)
DecimalString(n) ==
    LET d == CHOOSE c \in Digits : DigitVal[c] = n % 10
    IN  IF n < 10 THEN <<d>> ELSE DecimalString(n \div 10) \o <<d>>

\* int(s) accepts surrounding whitespace, one sign and decimal digits
IntLiteral(s) ==
    LET literal(body, unsigned) ==
            [ok   |-> unsigned # <<>> /\ \A i \in 1..Len(unsigned) :
                                             unsigned[i] \in Digits,
             neg  |-> body # <<>> /\ body[1] = "-",
             digs |-> unsigned]
        signed(body) ==
            literal(body, IF body # <<>> /\ body[1] \in {"+", "-"}
                          THEN Tail(body) ELSE body)
    IN  signed(Strip(s))

\* The outcome of ptype(val): the value, or the exception raised.
Construct(ptype, val) ==
    CASE ptype = "str" ->
           [raised |-> "none",
            val |-> CASE val.t = "str"  -> val
                      [] val.t = "int"  -> VStr(DecimalString(val.v))
                      [] val.t = "bool" ->
                           VStr(IF val.v THEN <<"T", "r", "u", "e">>
                                ELSE <<"F", "a", "l", "s", "e">>)
                      [] OTHER -> val]
      [] ptype = "int" ->
           CASE val.t = "str" ->
                  LET int(lit) ==
                          IF lit.ok
                          THEN [raised |-> "none",
                                val |-> VInt(IF lit.neg
                                             THEN 0 - DecimalValue(lit.digs)
                                             ELSE DecimalValue(lit.digs))]
                          ELSE [raised |-> "ValueError", val |-> None]
                  IN  int(IntLiteral(val.v))
             [] val.t = "int"  -> [raised |-> "none", val |-> val]
             [] val.t = "bool" ->
                  [raised |-> "none", val |-> VInt(IF val.v THEN 1 ELSE 0)]
             [] OTHER -> [raised |-> "TypeError", val |-> None]
      [] ptype = "bool" ->
           [raised |-> "none",
            val |-> CASE val.t = "str"  -> VBool(val.v # <<>>)
                      [] val.t = "int"  -> VBool(val.v # 0)
                      [] val.t = "bool" -> val
                      [] OTHER -> VBool(TRUE)]
      \* Name(val): the named tuple has two required fields
      [] OTHER -> [raised |-> "TypeError", val |-> None]

-----------------------------------------------------------------------------
(* ParamInfo and the parameter-info refiner *)

\* ParamInfo.choices is None
NoChoices == <<>>

ParamInfo(desc, short, choices) ==
    [present |-> TRUE, desc |-> desc, short |-> short, choices |-> choices]

\* calf_info.param_info.get(param) found nothing
NoInfo ==
    [present |-> FALSE, desc |-> <<>>, short |-> <<>>, choices |-> NoChoices]

\* re.match(r'^\((-[A-Za-z0-9])\)\s*(.*)', desc)
ShortMatch(desc) ==
    LET ok   == /\ Len(desc) >= 4
                /\ desc[1] = "(" /\ desc[2] = "-"
                /\ desc[3] \in AlNum /\ desc[4] = ")"
        rest == StrFrom(desc, 4)
        body == StrFrom(rest, LeadingRun(rest, Whitespace))
        eol  == FirstIndex(body, "\n")
    IN  [ok |-> ok,
         g1 |-> IF ok THEN SubSeq(desc, 2, 3) ELSE <<>>,
         g2 |-> IF ~ok THEN <<>>
                ELSE IF eol = 0 THEN body ELSE StrTo(body, eol - 1)]

\* the positions <<i, j>> of the braces that
\* re.match(r'^(.*?) *\{([^{}]*)\}([.,;]?)$', desc) matches
ChoicesBraces(desc) ==
    {ij \in (1..Len(desc)) \X (1..Len(desc)) :
        LET i == ij[1]
            j == ij[2]
            tail == StrFrom(desc, j)
        IN  /\ i < j
            /\ desc[i] = "{" /\ desc[j] = "}"
            /\ \A k \in (i + 1)..(j - 1) : desc[k] \notin {"{", "}"}
            /\ \A k \in 1..(i - 1) : IsDot(desc[k])
            /\ \/ tail = <<>>
               \/ tail = <<"\n">>
               \/ Len(tail) = 1 /\ tail[1] \in {".", ",", ";"}
               \/ Len(tail) = 2 /\ tail[1] \in {".", ",", ";"}
                                /\ tail[2] = "\n"}

\* a match that drops the punctuation after the closing brace
ChoicesMatch_nopunct(desc) ==
    LET found == ChoicesBraces(desc)
        ij == CHOOSE x \in found : TRUE
        before == StrTo(desc, ij[1] - 1)
    IN  IF found = {} THEN [ok |-> FALSE, g1 |-> <<>>, g2 |-> <<>>,
                            g3 |-> <<>>]
        ELSE [ok |-> TRUE,
              g1 |-> StrTo(before, Len(before) - TrailingRun(before, {" "})),
              g2 |-> SubSeq(desc, ij[1] + 1, ij[2] - 1),
              g3 |-> <<>>]

ChoicesMatch(desc) ==
    LET found == ChoicesBraces(desc)
        ij == CHOOSE x \in found : TRUE
        before == StrTo(desc, ij[1] - 1)
    IN  IF found = {} THEN [ok |-> FALSE, g1 |-> <<>>, g2 |-> <<>>,
                            g3 |-> <<>>]
        ELSE [ok |-> TRUE,
              g1 |-> StrTo(before, Len(before) - TrailingRun(before, {" "})),
              g2 |-> SubSeq(desc, ij[1] + 1, ij[2] - 1),
              g3 |-> IF ij[2] < Len(desc) /\ desc[ij[2] + 1] # "\n"
                     THEN <<desc[ij[2] + 1]>> ELSE <<>>]

\* re.split(r',\s*', s)
RECURSIVE SplitCommas(_)
SplitCommas(s) ==
    LET i == FirstIndex(s, ",")
        rest == StrFrom(s, i)
    IN  IF i = 0 THEN <<s>>
        ELSE <<StrTo(s, i - 1)>>
             \o SplitCommas(StrFrom(rest, LeadingRun(rest, Whitespace)))

basic_param_parser(info) ==
    LET sm == ShortMatch(info.desc)
        desc1 == IF sm.ok THEN sm.g2 ELSE info.desc
        cm == ChoicesMatch(desc1)
        hit == cm.ok /\ "," \in {cm.g2[k] : k \in 1..Len(cm.g2)}
        items == SplitCommas(cm.g2)
    IN  [info EXCEPT
            !.short = IF sm.ok THEN sm.g1 ELSE @,
            !.choices = IF hit THEN [k \in 1..Len(items) |-> Strip(items[k])]
                        ELSE @,
            !.desc = Strip(IF hit THEN cm.g1 \o cm.g3 ELSE desc1)]

-----------------------------------------------------------------------------
(* The indentation grouper and the doc parsers *)

\* ' ' * n
Spaces(n) == [i \in 1..n |-> " "]

\* str.lstrip()
LStrip(s) == StrFrom(s, LeadingRun(s, Whitespace))

\* str.split('\n')
RECURSIVE SplitLines(_)
SplitLines(s) ==
    LET split(i) ==
            IF i = 0 THEN <<s>>
            ELSE <<StrTo(s, i - 1)>> \o SplitLines(StrFrom(s, i))
    IN  split(FirstIndex(s, "\n"))

\* sep.join(lines)
RECURSIVE Join(_, _)
Join(sep, lines) ==
    IF lines = <<>> THEN <<>>
    ELSE IF Len(lines) = 1 THEN lines[1]
    ELSE lines[1] \o sep \o Join(sep, Tail(lines))

\* str.expandtabs() from the column col: tab stops every 8 columns
RECURSIVE ExpandFrom(_, _)
ExpandFrom(s, col) ==
    IF s = <<>> THEN <<>>
    ELSE IF Head(s) = "\t"
    THEN Spaces(8 - (col % 8)) \o ExpandFrom(Tail(s), col + 8 - (col % 8))
    ELSE <<Head(s)>>
         \o ExpandFrom(Tail(s), IF Head(s) \in {"\n", "\r"} THEN 0 ELSE col + 1)

expandtabs(s) == ExpandFrom(s, 0)

\* inspect.cleandoc(doc)
cleandoc(text) ==
    LET indents(lines) ==
            {LeadingRun(lines[i], Whitespace) :
                i \in {k \in 2..Len(lines) : LStrip(lines[k]) # <<>>}}
        dedent(lines, margins) ==
            [i \in 1..Len(lines) |->
                IF i = 1 THEN LStrip(lines[i])
                ELSE IF margins = {} THEN lines[i]
                ELSE StrFrom(lines[i],
                             CHOOSE m \in margins : \A n \in margins : m <= n)]
        trim(lines, full) ==
            IF full = {} THEN <<>>
            ELSE SubSeq(lines, CHOOSE i \in full : \A j \in full : i <= j,
                               CHOOSE i \in full : \A j \in full : i >= j)
        strip(lines) ==
            trim(lines, {i \in 1..Len(lines) : lines[i] # <<>>})
        clean(lines) ==
            Join(<<"\n">>, strip(dedent(lines, indents(lines))))
    IN  clean(SplitLines(expandtabs(text)))

\* what a generator or a parser gave: its value, or the exception
Returned(val) == [raised |-> "none", val |-> val]

Raised(e) == [raised |-> e, val |-> None]

\* [0 if l[ilen] == ' ' else 1 for l in lines], or the line that has no
\* character at ilen
is_start(lines, ilen) ==
    [i \in 1..Len(lines) |->
        IF Len(lines[i]) <= ilen THEN -1
        ELSE IF lines[i][ilen + 1] = " " THEN 0 ELSE 1]

\* itertools.accumulate(is_start)
RECURSIVE accumulate(_)
accumulate(xs) ==
    IF xs = <<>> THEN <<>>
    ELSE LET sums(before) ==
                 Append(before,
                        (IF before = <<>> THEN 0 ELSE before[Len(before)])
                        + xs[Len(xs)])
         IN  sums(accumulate(StrTo(xs, Len(xs) - 1)))

\* itertools.groupby(zip(lines, group_cnt), lambda x: x[1]): the runs of
\* lines with the same count
RECURSIVE groupby(_, _)
groupby(lines, cnt) ==
    IF lines = <<>> THEN <<>>
    ELSE LET extend(before) ==
                 IF Len(lines) > 1 /\ cnt[Len(cnt)] = cnt[Len(cnt) - 1]
                 THEN [before EXCEPT ![Len(before)] =
                                         Append(@, lines[Len(lines)])]
                 ELSE Append(before, <<lines[Len(lines)]>>)
         IN  extend(groupby(StrTo(lines, Len(lines) - 1),
                            StrTo(cnt, Len(cnt) - 1)))

\* a filter that keeps the indented lines after a dedented one too
takewhile_all(lines, ilen) ==
    SelectSeq(lines, LAMBDA l : Len(l) >= ilen /\ StrTo(l, ilen) = Spaces(ilen))

\* itertools.takewhile(lambda x: x[:ilen] == ' ' * ilen, lines)
RECURSIVE takewhile(_, _)
takewhile(lines, ilen) ==
    IF lines # <<>> /\ Len(lines[1]) >= ilen
                    /\ StrTo(lines[1], ilen) = Spaces(ilen)
    THEN <<lines[1]>> \o takewhile(Tail(lines), ilen) ELSE <<>>

\* list(indented_groups(inp))
indented_groups(inp) ==
    LET group(lines, starts) ==
            IF \E i \in 1..Len(starts) : starts[i] = -1
            THEN Raised("IndexError")
            ELSE Returned(groupby(lines, accumulate(starts)))
        run(lines, ilen) == group(lines, is_start(lines, ilen))
        cut(lines, ilen) == run(takewhile(lines, ilen), ilen)
        baseline(lines) ==
            IF lines = <<>> THEN Returned(<<>>)
            ELSE cut(lines, LeadingRun(lines[1], {" "}))
        expand(lines) == [i \in 1..Len(lines) |-> expandtabs(lines[i])]
    IN  baseline(expand(SelectSeq(SplitLines(inp),
                                  LAMBDA l : Strip(l) # <<>>)))

-----------------------------------------------------------------------------
(* Loader selection *)

\* the declared types that are typing.Optional[T], and their T
OptionalArg == [o \in {"Optional[int]", "Optional[str]"} |->
                   IF o = "Optional[int]" THEN "int" ELSE "str"]

PTypes == {"str", "int", "bool", "Name"} \cup DOMAIN OptionalArg

Kinds == {"pos", "opt", "var", "varkw"}

firstname == <<"f", "i", "r", "s", "t", "n", "a", "m", "e">>

lastname == <<"l", "a", "s", "t", "n", "a", "m", "e">>

\* type(default)
TypeOf(default) ==
    CASE default.t = "str"  -> "str"
      [] default.t = "int"  -> "int"
      [] default.t = "bool" -> "bool"
      [] default.t = "Name" -> "Name"
      [] OTHER -> "NoneType"

\* a loader that unwraps the optional type and keeps NO_DEFAULT
BaseArgLoader_nodefault(cls, param, ptype, info, default, subloaders) ==
    [cls        |-> cls,
     param      |-> param,
     ptype      |-> IF ptype \in DOMAIN OptionalArg
                    THEN OptionalArg[ptype] ELSE ptype,
     info       |-> info,
     default    |-> default,
     subloaders |-> subloaders]

\* BaseArgLoader.__init__ (and CompositeArgLoader.__init__)
BaseArgLoader(cls, param, ptype, info, default, subloaders) ==
    LET optional == ptype \in DOMAIN OptionalArg
    IN  [cls        |-> cls,
         param      |-> param,
         ptype      |-> IF optional THEN OptionalArg[ptype] ELSE ptype,
         info       |-> info,
         default    |-> IF optional /\ default = NO_DEFAULT
                        THEN None ELSE default,
         subloaders |-> subloaders]

\* a selection that forgets the boolean positional parameters
select_loader_cls_nobool(param, ptype, kind, info, default) ==
    IF kind = "opt" THEN "OptArgLoader"
    ELSE IF kind = "var" THEN "VarArgLoader"
    ELSE IF kind = "varkw" THEN "MapArgLoader"
    ELSE "PosArgLoader"

\* LoaderSelector.select_loader_cls
select_loader_cls(param, ptype, kind, info, default) ==
    IF kind = "opt" \/ (kind = "pos" /\ ptype = "bool") THEN "OptArgLoader"
    ELSE IF kind = "var" THEN "VarArgLoader"
    ELSE IF kind = "varkw" THEN "MapArgLoader"
    ELSE "PosArgLoader"

\* selector.match(param, ptype, kind, info), for LoaderSelector and for
\* the NameSelector of the tests and of docs/examples/composite.py
SelectorMatch(selector, param, ptype, kind, info) ==
    IF selector = "NameSelector" THEN ptype = "Name" ELSE TRUE

\* selector.make_loader(param, ptype, kind, info, default)
make_loader(selector, param, ptype, kind, info, default) ==
    IF selector = "NameSelector"
    THEN BaseArgLoader("CompositeArgLoader", param, ptype, info, default,
            << BaseArgLoader("OptArgLoader", firstname, "str",
                   ParamInfo(<<"F">>, <<"-", "f">>, NoChoices),
                   VStr(<<"I", "s", "a", "a", "c">>), <<>>),
               BaseArgLoader("OptArgLoader", lastname, "str",
                   ParamInfo(<<"L">>, <<"-", "l">>, NoChoices),
                   VStr(<<"T", "o">>), <<>>) >>)
    ELSE BaseArgLoader(select_loader_cls(param, ptype, kind, info, default),
                       param, ptype, info, default, <<>>)

-----------------------------------------------------------------------------
(* The overflow-argument broker *)

\* the substring '' that VarArgLoader registers
AcceptAll == [re |-> FALSE, s |-> <<>>]

\* re.compile(r'^[^=].*=') that MapArgLoader registers
KeyValPattern == [re |-> TRUE, s |-> <<"^", "[", "^", "=", "]", ".", "*", "=">>]

\* a pattern that accepts every token that is not empty
KeyValMatch_loose(pval) == Len(pval) >= 1

\* re.compile(r'^[^=].*=').match(pval)
KeyValMatch(pval) ==
    /\ Len(pval) >= 2
    /\ pval[1] # "="
    /\ \E i \in 2..Len(pval) :
          pval[i] = "=" /\ \A j \in 2..(i - 1) : IsDot(pval[j])

\* a match that takes a string matcher for the whole token
_match_arg_eq(var_ident, pval) ==
    IF var_ident.re THEN KeyValMatch(pval) ELSE var_ident.s = pval

\* VarArgBroker._match_arg
_match_arg(var_ident, pval) ==
    IF ~var_ident.re THEN IsSubstring(var_ident.s, pval)
    ELSE KeyValMatch(pval)

\* VarArgBroker.register_var
register_var(reg, var_ident, param) ==
    Append(reg, [var_ident |-> var_ident, param |-> param])

\* VarArgBroker.want_var_arg
want_var_arg(reg) == reg # <<>>

\* the loop of VarArgBroker.distribute over the merged tokens
RECURSIVE DistributeLoop(_, _, _)
DistributeLoop(reg, ns, rest) ==
    IF rest = <<>> THEN [raised |-> "none", ns |-> ns]
    ELSE LET remain == Head(rest)
             hits == {k \in 1..Len(reg) : _match_arg(reg[k].var_ident, remain)}
             first == CHOOSE k \in hits : \A h \in hits : k <= h
             target == reg[first].param
         IN  IF hits = {} THEN [raised |-> "ValueError", ns |-> ns]
             ELSE DistributeLoop(reg,
                      [ns EXCEPT ![target] = VList(Append(@.v, remain))],
                      Tail(rest))

\* the local variable remains of VarArgBroker.distribute
Merged(reg, ns, leftover) ==
    IF reg = <<>> THEN <<>> ELSE ns[reg[1].param].v \o leftover

\* a loop that drops the token no registration accepts
RECURSIVE DistributeLoop_skip(_, _, _)
DistributeLoop_skip(reg, ns, rest) ==
    IF rest = <<>> THEN [raised |-> "none", ns |-> ns]
    ELSE LET remain == Head(rest)
             hits == {k \in 1..Len(reg) : _match_arg(reg[k].var_ident, remain)}
             first == CHOOSE k \in hits : \A h \in hits : k <= h
             target == reg[first].param
         IN  IF hits = {} THEN DistributeLoop_skip(reg, ns, Tail(rest))
             ELSE DistributeLoop_skip(reg,
                      [ns EXCEPT ![target] = VList(Append(@.v, remain))],
                      Tail(rest))

\* a distribution that drops the token no registration accepts
distribute_skip(reg, ns, leftover) ==
    IF reg = <<>> THEN [raised |-> "none", ns |-> ns]
    ELSE DistributeLoop_skip(reg, [ns EXCEPT ![reg[1].param] = VList(<<>>)],
                             Merged(reg, ns, leftover))

\* a distribution that clears the target of every registration
distribute_clearall(reg, ns, leftover) ==
    IF reg = <<>> THEN [raised |-> "none", ns |-> ns]
    ELSE DistributeLoop(reg,
             [q \in DOMAIN ns |->
                 IF \E k \in 1..Len(reg) : reg[k].param = q
                 THEN VList(<<>>) ELSE ns[q]],
             Merged(reg, ns, leftover))

\* VarArgBroker.distribute
distribute(reg, ns, leftover) ==
    IF reg = <<>> THEN [raised |-> "none", ns |-> ns]
    ELSE DistributeLoop(reg, [ns EXCEPT ![reg[1].param] = VList(<<>>)],
                        Merged(reg, ns, leftover))

-----------------------------------------------------------------------------
(* The loaders declare themselves to the flag engine *)

\* BaseArgLoader.basic_arg_extra: the 'default' and 'choices' entries
HasDefault(loader) == loader.default # NO_DEFAULT

ExtraChoices(loader) ==
    IF loader.info.present THEN loader.info.choices ELSE NoChoices

\* one argument of the ArgumentParser, as add_argument creates it; nargs is
\* "1" for None and "0" for the store_true action
Argument(dest, flags, nargs, default, required, choices) ==
    [dest |-> dest, flags |-> flags, nargs |-> nargs, default |-> default,
     required |-> required, choices |-> choices]

\* PosArgLoader.prepare
PosArgLoader_prepare(loader, ci) ==
    [ci EXCEPT !.parser = Append(@,
        IF HasDefault(loader)
        THEN Argument(loader.param, <<>>, "?", loader.default, FALSE,
                      ExtraChoices(loader))
        ELSE Argument(loader.param, <<>>, "1", None, TRUE,
                      ExtraChoices(loader)))]

\* OptArgLoader.prepare
OptArgLoader_prepare(loader, ci) ==
    LET long == <<"-", "-">> \o loader.param
        names == IF loader.info.present /\ loader.info.short # <<>>
                 THEN <<loader.info.short, long>> ELSE <<long>>
    IN  [ci EXCEPT !.parser = Append(@,
            IF loader.ptype = "bool"
            THEN Argument(loader.param, names, "0", VBool(FALSE), FALSE,
                          NoChoices)
            ELSE IF HasDefault(loader)
            THEN Argument(loader.param, names, "1", loader.default, FALSE,
                          ExtraChoices(loader))
            ELSE Argument(loader.param, names, "1", None, TRUE,
                          ExtraChoices(loader)))]

\* a loader that declares its catch-all argument without registering
VarArgLoader_prepare_unregistered(loader, ci) ==
    [parser |-> Append(ci.parser,
                   Argument(loader.param, <<>>, "*", None, TRUE, NoChoices)),
     registered |-> ci.registered]

\* VarArgLoader.prepare
VarArgLoader_prepare(loader, ci) ==
    [parser |-> Append(ci.parser,
                   Argument(loader.param, <<>>, "*", None, TRUE, NoChoices)),
     registered |-> register_var(ci.registered, AcceptAll, loader.param)]

\* MapArgLoader.prepare
MapArgLoader_prepare(loader, ci) ==
    [parser |-> Append(ci.parser,
                   Argument(loader.param, <<>>, "*", None, TRUE, NoChoices)),
     registered |-> register_var(ci.registered, KeyValPattern, loader.param)]

\* loader.prepare(calf_info) of a loader that is not composite
SimplePrepare(loader, ci) ==
    CASE loader.cls = "PosArgLoader" -> PosArgLoader_prepare(loader, ci)
      [] loader.cls = "OptArgLoader" -> OptArgLoader_prepare(loader, ci)
      [] loader.cls = "VarArgLoader" -> VarArgLoader_prepare(loader, ci)
      [] loader.cls = "MapArgLoader" -> MapArgLoader_prepare(loader, ci)

\* CompositeArgLoader.prepare: the sub-loaders prepare in list order
RECURSIVE CompositeArgLoader_prepare(_, _)
CompositeArgLoader_prepare(subloaders, ci) ==
    IF subloaders = <<>> THEN ci
    ELSE CompositeArgLoader_prepare(Tail(subloaders),
                                    SimplePrepare(Head(subloaders), ci))

\* loader.prepare(calf_info); ci holds the parser and the broker
prepare(loader, ci) ==
    IF loader.cls = "CompositeArgLoader"
    THEN CompositeArgLoader_prepare(loader.subloaders, ci)
    ELSE SimplePrepare(loader, ci)

-----------------------------------------------------------------------------
(* The flag engine: argparse.ArgumentParser on the declared arguments.      *)
(* A token that starts with '-' is one of the declared option strings or    *)
(* an option the parser does not know; every other token is an argument.    *)

Positionals(prs) == SelectSeq(prs, LAMBDA a : a.flags = <<>>)

Optionals(prs) == SelectSeq(prs, LAMBDA a : a.flags # <<>>)

\* ArgumentParser.add_argument raises ArgumentError when an option string
\* is declared twice
Conflict(prs) ==
    \E i \in 1..Len(prs), j \in 1..Len(prs) :
        /\ i < j
        /\ \E x \in 1..Len(prs[i].flags), y \in 1..Len(prs[j].flags) :
              prs[i].flags[x] = prs[j].flags[y]

\* the declared argument that owns the option string tok, or 0
OptionOf(prs, tok) ==
    LET owners == {k \in 1..Len(prs) :
                      \E f \in 1..Len(prs[k].flags) : prs[k].flags[f] = tok}
    IN  IF owners = {} THEN 0 ELSE CHOOSE k \in owners : TRUE

\* ArgumentParser._parse_optional: 'O' for an option string, 'A' otherwise
IsOptionString(prs, tok) ==
    /\ tok # <<>>
    /\ tok[1] = "-"
    /\ OptionOf(prs, tok) # 0 \/ Len(tok) > 1

\* the initial namespace: every destination holds its default
InitialNamespace(prs) ==
    [d \in {prs[k].dest : k \in 1..Len(prs)} |->
        LET k == CHOOSE k \in 1..Len(prs) : prs[k].dest = d
        IN  prs[k].default]

\* ArgumentParser._check_value
CheckValue(action, tok) ==
    action.choices = NoChoices
        \/ \E c \in 1..Len(action.choices) : action.choices[c] = tok

\* no assignment of the available tokens to these positionals
NoMatch == <<-1>>

\* The greedy match of the nargs patterns of these positionals against n
\* argument tokens: how many tokens each one takes.
RECURSIVE GreedyMatch(_, _)
GreedyMatch(nargs, n) ==
    LET lo == IF Head(nargs) = "1" THEN 1 ELSE 0
        hi == IF Head(nargs) = "*" THEN n ELSE 1
        take(most) == <<most>> \o GreedyMatch(Tail(nargs), n - most)
        greedy(fits) ==
            IF fits = {} THEN NoMatch
            ELSE take(CHOOSE c \in fits : \A d \in fits : d <= c)
    IN  IF nargs = <<>> THEN <<>>
        ELSE greedy({c \in lo..hi :
                        c <= n /\ GreedyMatch(Tail(nargs), n - c) # NoMatch})

\* ArgumentParser._match_arguments_partial: the longest prefix of the
\* positionals that matches
match_partial(nargs, n) ==
    LET longest(ok) ==
            IF ok = {} THEN <<>>
            ELSE GreedyMatch(
                     StrTo(nargs, CHOOSE k \in ok : \A j \in ok : j <= k), n)
    IN  longest({k \in 1..Len(nargs) :
                    GreedyMatch(StrTo(nargs, k), n) # NoMatch})

\* ArgumentParser._get_values for a positional that took the tokens toks
GetValues(action, toks) ==
    CASE toks = <<>> /\ action.nargs = "?" ->
           [ok  |-> action.default.t # "str"
                       \/ CheckValue(action, action.default.v),
            val |-> action.default]
      [] toks = <<>> /\ action.nargs = "*" ->
           [ok  |-> TRUE,
            val |-> IF action.default # None THEN action.default
                    ELSE VList(<<>>)]
      [] toks # <<>> /\ action.nargs = "*" ->
           [ok  |-> \A k \in 1..Len(toks) : CheckValue(action, toks[k]),
            val |-> VList(toks)]
      [] OTHER ->
           [ok |-> CheckValue(action, toks[1]), val |-> VStr(toks[1])]

\* the positionals take their tokens one after the other
RECURSIVE TakePositionals(_, _, _, _)
TakePositionals(st, tokens, actions, counts) ==
    LET store(action, got) ==
            IF ~got.ok THEN [st EXCEPT !.err = TRUE]
            ELSE TakePositionals(
                     [st EXCEPT !.i = @ + Head(counts),
                                !.npos = @ + 1,
                                !.seen = @ \cup {action.dest},
                                !.ns = [@ EXCEPT ![action.dest] = got.val]],
                     tokens, Tail(actions), Tail(counts))
    IN  IF counts = <<>> THEN st
        ELSE store(Head(actions),
                   GetValues(Head(actions),
                             SubSeq(tokens, st.i, st.i + Head(counts) - 1)))

\* consume_positionals of _parse_known_args
consume_positionals(st, prs, tokens) ==
    LET n == LeadingRun(StrFrom([k \in 1..Len(tokens) |->
                                     IF IsOptionString(prs, tokens[k])
                                     THEN "O" ELSE "A"], st.i - 1), {"A"})
        take(rest) ==
            TakePositionals(st, tokens, rest,
                match_partial([k \in 1..Len(rest) |-> rest[k].nargs], n))
    IN  take(StrFrom(Positionals(prs), st.npos))

\* consume_optional of _parse_known_args
consume_optional(st, prs, tokens) ==
    LET hasarg == /\ st.i < Len(tokens)
                  /\ ~IsOptionString(prs, tokens[st.i + 1])
        take(action) ==
            IF action.nargs = "0"
            THEN [st EXCEPT !.ns = [@ EXCEPT ![action.dest] = VBool(TRUE)],
                            !.seen = @ \cup {action.dest},
                            !.i = @ + 1]
            ELSE IF hasarg /\ CheckValue(action, tokens[st.i + 1])
            THEN [st EXCEPT !.ns = [@ EXCEPT ![action.dest] =
                                                   VStr(tokens[st.i + 1])],
                            !.seen = @ \cup {action.dest},
                            !.i = @ + 2]
            ELSE [st EXCEPT !.err = TRUE]
        option(k) ==
            IF k = 0
            THEN [st EXCEPT !.extras = Append(@, tokens[st.i]), !.i = @ + 1]
            ELSE take(prs[k])
    IN  option(OptionOf(prs, tokens[st.i]))

\* the main loop of _parse_known_args, from the token at position st.i
RECURSIVE ParseLoop(_, _, _)
ParseLoop(st, prs, tokens) ==
    LET optional(st1, optidx, nextopt) ==
            IF st1.err THEN st1
            ELSE IF st1.i > st.i THEN ParseLoop(st1, prs, tokens)
            ELSE ParseLoop(
                     consume_optional(
                         IF st1.i \notin optidx
                         THEN [st1 EXCEPT
                                  !.extras = @ \o SubSeq(tokens, st1.i,
                                                         nextopt - 1),
                                  !.i = nextopt]
                         ELSE st1,
                         prs, tokens),
                     prs, tokens)
        upto(optidx, nextopt) ==
            optional(IF st.i # nextopt
                     THEN consume_positionals(st, prs, tokens) ELSE st,
                     optidx, nextopt)
        finish(last) ==
            IF last.err THEN last
            ELSE [last EXCEPT !.extras = @ \o StrFrom(tokens, last.i - 1),
                              !.i = Len(tokens) + 1]
        loop(optidx) ==
            IF optidx # {}
            THEN upto(optidx, CHOOSE k \in optidx : \A j \in optidx : k <= j)
            ELSE finish(consume_positionals(st, prs, tokens))
    IN  IF st.err THEN st
        ELSE loop({k \in st.i..Len(tokens) :
                      IsOptionString(prs, tokens[k])})

\* ArgumentParser.parse_known_args: the namespace and the unclaimed tokens,
\* or the error that ends the process with status 2
parse_known_args(prs, tokens) ==
    LET missing(st) == {k \in 1..Len(prs) :
                           prs[k].required /\ prs[k].dest \notin st.seen}
        outcome(st) ==
            [err |-> st.err \/ missing(st) # {}, ns |-> st.ns,
             extras |-> st.extras]
    IN  outcome(ParseLoop([i |-> 1, npos |-> 0, ns |-> InitialNamespace(prs),
                           extras |-> <<>>, seen |-> {}, err |-> FALSE],
                          prs, tokens))

\* ArgumentParser.parse_args: unclaimed tokens are an error
parse_args_strict(prs, tokens) ==
    LET strict(known) == [known EXCEPT !.err = @ \/ known.extras # <<>>]
    IN  strict(parse_known_args(prs, tokens))

-----------------------------------------------------------------------------
(* The loaders convert the namespace into the arguments of the call *)

EmptyMap == [k \in {} |-> None]

\* m[k] = v of a Python dictionary
SetKey(m, k, v) ==
    [x \in (DOMAIN m) \cup {k} |-> IF x = k THEN v ELSE m[x]]

\* the line BaseArgLoader.conv prints on the error stream
ConvError(val, ptype) == [error |-> "conversion", val |-> val, type |-> ptype]

\* BaseArgLoader.conv: the converted value, or how control leaves conv
conv(loader, val) ==
    LET try(made) ==
            IF made.raised = "ValueError"
            THEN [raised |-> "SystemExit(1)", val |-> None,
                  err |-> <<ConvError(val.v, loader.ptype)>>]
            ELSE [raised |-> made.raised, val |-> made.val, err |-> <<>>]
    IN  IF val = None THEN [raised |-> "none", val |-> None, err |-> <<>>]
        ELSE try(Construct(loader.ptype, val))

\* the state ns2params threads through the loaders
Loaded(raised, p, k, err) ==
    [raised |-> raised, pos |-> p, kwd |-> k, err |-> err]

\* PosArgLoader.load
PosArgLoader_load(loader, ns, p, k) ==
    LET append(c) ==
            IF c.raised # "none" THEN Loaded(c.raised, p, k, c.err)
            ELSE Loaded("none", Append(p, c.val), k, <<>>)
    IN  append(conv(loader, ns[loader.param]))

\* OptArgLoader.load
OptArgLoader_load(loader, ns, p, k) ==
    LET set(c) ==
            IF c.raised # "none" THEN Loaded(c.raised, p, k, c.err)
            ELSE Loaded("none", p, SetKey(k, loader.param, c.val), <<>>)
    IN  set(conv(loader, ns[loader.param]))

\* VarArgLoader.load
RECURSIVE VarArgLoader_load(_, _, _, _)
VarArgLoader_load(loader, vals, p, k) ==
    LET extend(c) ==
            IF c.raised # "none" THEN Loaded(c.raised, p, k, c.err)
            ELSE VarArgLoader_load(loader, Tail(vals), Append(p, c.val), k)
    IN  IF vals = <<>> THEN Loaded("none", p, k, <<>>)
        ELSE extend(conv(loader, VStr(Head(vals))))

\* a loading that keeps the first value of a key
RECURSIVE MapArgLoader_load_first(_, _, _, _)
MapArgLoader_load_first(loader, vals, p, k) ==
    LET set(key, c) ==
            IF c.raised # "none" THEN Loaded(c.raised, p, k, c.err)
            ELSE MapArgLoader_load_first(loader, Tail(vals), p,
                     IF key \in DOMAIN k THEN k ELSE SetKey(k, key, c.val))
        split(part) == set(part.head, conv(loader, VStr(part.tail)))
    IN  IF vals = <<>> THEN Loaded("none", p, k, <<>>)
        ELSE split(Partition(Head(vals), "="))

\* MapArgLoader.load
RECURSIVE MapArgLoader_load(_, _, _, _)
MapArgLoader_load(loader, vals, p, k) ==
    LET set(key, c) ==
            IF c.raised # "none" THEN Loaded(c.raised, p, k, c.err)
            ELSE MapArgLoader_load(loader, Tail(vals), p,
                                   SetKey(k, key, c.val))
        split(part) == set(part.head, conv(loader, VStr(part.tail)))
    IN  IF vals = <<>> THEN Loaded("none", p, k, <<>>)
        ELSE split(Partition(Head(vals), "="))

\* loader.load(namespace, pos, kwd) of a loader that is not composite
SimpleLoad(loader, ns, p, k) ==
    CASE loader.cls = "PosArgLoader" -> PosArgLoader_load(loader, ns, p, k)
      [] loader.cls = "OptArgLoader" -> OptArgLoader_load(loader, ns, p, k)
      [] loader.cls = "VarArgLoader" ->
            VarArgLoader_load(loader, ns[loader.param].v, p, k)
      [] loader.cls = "MapArgLoader" ->
            MapArgLoader_load(loader, ns[loader.param].v, p, k)

\* the sub-loaders of a composite loader load in list order
RECURSIVE SubLoad(_, _, _)
SubLoad(subloaders, ns, acc) ==
    IF subloaders = <<>> \/ acc.raised # "none" THEN acc
    ELSE SubLoad(Tail(subloaders), ns,
                 SimpleLoad(Head(subloaders), ns, acc.pos, acc.kwd))

\* Name(*vararg, **varkw): the constructor of the named tuple
NameCtor(vararg, varkw) ==
    LET fields == <<firstname, lastname>>
        given(i) == i <= Len(vararg) \/ fields[i] \in DOMAIN varkw
        value(i) == IF i <= Len(vararg) THEN vararg[i] ELSE varkw[fields[i]]
        ok == /\ Len(vararg) <= 2
              /\ \A key \in DOMAIN varkw :
                    \E i \in 1..2 : fields[i] = key /\ i > Len(vararg)
              /\ given(1) /\ given(2)
    IN  IF ok THEN [raised |-> "none", val |-> VName(value(1), value(2))]
        ELSE [raised |-> "TypeError", val |-> None]

\* a load whose sub-loaders write to the lists of the caller
CompositeArgLoader_load_spill(loader, ns, p, k) ==
    SubLoad(loader.subloaders, ns, Loaded("none", p, k, <<>>))

\* CompositeArgLoader.load
CompositeArgLoader_load(loader, ns, p, k) ==
    LET append(made) ==
            IF made.raised # "none" THEN Loaded(made.raised, p, k, <<>>)
            ELSE Loaded("none", Append(p, made.val), k, <<>>)
        construct(sub) ==
            IF sub.raised # "none" THEN Loaded(sub.raised, p, k, sub.err)
            ELSE append(NameCtor(sub.pos, sub.kwd))
    IN  construct(SubLoad(loader.subloaders, ns,
                          Loaded("none", <<>>, EmptyMap, <<>>)))

\* loader.load(namespace, pos, kwd)
load(loader, ns, p, k) ==
    IF loader.cls = "CompositeArgLoader"
    THEN CompositeArgLoader_load(loader, ns, p, k)
    ELSE SimpleLoad(loader, ns, p, k)

-----------------------------------------------------------------------------
(* The doc parsers *)

\* the section names of
\* r'(^(?:Args?|Returns?|Raises?|Yields?|Examples?|Attributes?):\s*$)'
SectionNames ==
    LET singular == {
      <<"A", "r", "g">>, <<"R", "e", "t", "u", "r", "n">>,
      <<"R", "a", "i", "s", "e">>, <<"Y", "i", "e", "l", "d">>,
      <<"E", "x", "a", "m", "p", "l", "e">>,
      <<"A", "t", "t", "r", "i", "b", "u", "t", "e">> }
    IN  singular \cup {Append(w, "s") : w \in singular}

\* the section names of r'^Args?:\s*$'
ArgsNames == { <<"A", "r", "g">>, <<"A", "r", "g", "s">> }

\* '^' of a regular expression compiled with re.M matches at p
LineStart(s, p) == p = 1 \/ s[p - 1] = "\n"

\* the position of the last character of the match of '(?:names):\s*$'
\* (re.M) that starts at p, or 0
HeaderEnd(s, p, names) ==
    LET colons == {p + Len(w) : w \in {n \in names :
                       /\ p + Len(n) <= Len(s)
                       /\ SubSeq(s, p, p + Len(n) - 1) = n
                       /\ s[p + Len(n)] = ":"}}
        ends(q) == {q + e : e \in {x \in 0..LeadingRun(StrFrom(s, q), Whitespace) :
                       q + x = Len(s) \/ s[q + x + 1] = "\n"}}
        last(found) ==
            IF found = {} THEN 0
            ELSE CHOOSE e \in found : \A f \in found : f <= e
    IN  IF colons = {} THEN 0 ELSE last(ends(CHOOSE q \in colons : TRUE))

\* re.split(pattern, s, 1) for a pattern that matched s[first..last]
SplitAt(s, first, last) ==
    [found |-> TRUE, before |-> StrTo(s, first - 1),
     sep |-> SubSeq(s, first, last), after |-> StrFrom(s, last)]

\* a split that loses the text when the pattern matches nowhere
NotSplit_lost(s) ==
    [found |-> FALSE, before |-> <<>>, sep |-> <<>>, after |-> <<>>]

NotSplit(s) == [found |-> FALSE, before |-> s, sep |-> <<>>, after |-> <<>>]

\* re.split of s at the first line that is a header with one of the names
HeaderSplit(s, names) ==
    LET leftmost(hits) ==
            IF hits = {} THEN NotSplit(s)
            ELSE LET first == CHOOSE p \in hits : \A q \in hits : p <= q
                 IN  SplitAt(s, first, HeaderEnd(s, first, names))
    IN  leftmost({p \in 1..Len(s) :
                     LineStart(s, p) /\ HeaderEnd(s, p, names) # 0})

\* what a doc parser returns
DocRet(main_doc, param_docs) ==
    Returned([summary |-> main_doc, params |-> param_docs])

\* re.split(r'[\ \(]', name)[0]
FirstWord(name) ==
    LET cuts == {i \in 1..Len(name) : name[i] \in {" ", "("}}
    IN  IF cuts = {} THEN name
        ELSE StrTo(name, (CHOOSE i \in cuts : \A j \in cuts : i <= j) - 1)

\* the loop of google_doc_parser over the groups
RECURSIVE GoogleParams(_, _)
GoogleParams(grps, param_docs) ==
    LET entry(part) ==
            SetKey(param_docs, FirstWord(Strip(part.head)),
                   ParamInfo(Strip(part.tail), <<>>, NoChoices))
    IN  IF grps = <<>> THEN param_docs
        ELSE GoogleParams(Tail(grps),
                          entry(Partition(Join(<<" ">>, Head(grps)), ":")))

\* plain_doc_parser
plain_doc_parser(text) == DocRet(cleandoc(text), EmptyMap)

\* google_doc_parser
google_doc_parser(text) ==
    LET params(main_doc, grps) ==
            IF grps.raised # "none" THEN Raised(grps.raised)
            ELSE DocRet(main_doc, GoogleParams(grps.val, EmptyMap))
        arguments(main_doc, parts) ==
            IF ~parts.found THEN DocRet(main_doc, EmptyMap)
            ELSE params(main_doc, indented_groups(parts.after))
        sections(parts) ==
            IF ~parts.found THEN DocRet(parts.before, EmptyMap)
            ELSE arguments(parts.before,
                           HeaderSplit(parts.sep \o parts.after, ArgsNames))
    IN  sections(HeaderSplit(cleandoc(text), SectionNames))

\* re.split(r'(^[:@].*:)', s, 1, re.M)
FieldSplit(s) ==
    LET colons(p) == {j \in (p + 1)..Len(s) :
                         /\ s[j] = ":"
                         /\ \A k \in (p + 1)..j : s[k] # "\n"}
        hits == {p \in 1..Len(s) :
                    LineStart(s, p) /\ s[p] \in {":", "@"} /\ colons(p) # {}}
        split(first) ==
            SplitAt(s, first,
                    CHOOSE j \in colons(first) : \A k \in colons(first) : k <= j)
    IN  IF hits = {} THEN NotSplit(s)
        ELSE split(CHOOSE p \in hits : \A q \in hits : p <= q)

\* re.match(r'[:@]param\s+([^:]+):\s*(.*)$', s) for a text of one line
ParamMatch(s) ==
    LET marker == /\ Len(s) >= 7
                  /\ s[1] \in {":", "@"}
                  /\ SubSeq(s, 2, 6) = <<"p", "a", "r", "a", "m">>
                  /\ s[7] \in Whitespace
        blanks == LeadingRun(StrFrom(s, 6), Whitespace)
        colon == FirstIndex(StrFrom(s, 6), ":") + 6
        start == IF 7 + blanks = colon THEN colon - 1 ELSE 7 + blanks
        ok == marker /\ colon > 6 /\ (7 + blanks = colon => blanks >= 2)
    IN  [ok |-> ok,
         g1 |-> IF ok THEN SubSeq(s, start, colon - 1) ELSE <<>>,
         g2 |-> IF ok THEN LStrip(StrFrom(s, colon)) ELSE <<>>]

\* name.strip(grave accent).lstrip('*'); "U+0060" stands for the grave
\* accent, which no string of TLA+ can hold
FieldName(name) ==
    LET unquote(ticks, back) ==
            IF ticks = Len(name) THEN <<>>
            ELSE SubSeq(name, ticks + 1, Len(name) - back)
        unstar(bare) == StrFrom(bare, LeadingRun(bare, {"*"}))
    IN  unstar(unquote(LeadingRun(name, {"U+0060"}),
                       TrailingRun(name, {"U+0060"})))

\* the loop of sphinx_doc_parser over the groups
RECURSIVE SphinxParams(_, _)
SphinxParams(grps, param_docs) ==
    LET entry(match) ==
            IF ~match.ok THEN param_docs
            ELSE SetKey(param_docs, FieldName(match.g1),
                        ParamInfo(Strip(match.g2), <<>>, NoChoices))
    IN  IF grps = <<>> THEN param_docs
        ELSE SphinxParams(Tail(grps),
                          entry(ParamMatch(Join(<<" ">>, Head(grps)))))

\* sphinx_doc_parser
sphinx_doc_parser(text) ==
    LET params(main_doc, grps) ==
            IF grps.raised # "none" THEN Raised(grps.raised)
            ELSE DocRet(main_doc, SphinxParams(grps.val, EmptyMap))
        fields(parts) ==
            IF ~parts.found THEN DocRet(parts.before, EmptyMap)
            ELSE params(parts.before,
                        indented_groups(parts.sep \o parts.after))
    IN  fields(FieldSplit(cleandoc(text)))

\* the match of r'\s*([^\n]+\n\s*\s*-+\s*\n)' that starts at p: the
\* positions of the first character of the group and of the last character
\* of the match, or <<0, 0>>
UnderlinedAt(s, p) ==
    LET run(i, cls) == LeadingRun(StrFrom(s, i - 1), cls)
        eol(h) == h + run(h, {c \in {s[i] : i \in 1..Len(s)} : c # "\n"})
        dashes(h) == eol(h) + 1 + run(eol(h) + 1, Whitespace)
        after(h) == dashes(h) + run(dashes(h), {"-"})
        ends(h) == {e \in after(h)..(after(h) + run(after(h), Whitespace) - 1) :
                       s[e] = "\n"}
        fits == {h \in p..(p + run(p, Whitespace)) :
                    /\ h <= Len(s)
                    /\ s[h] # "\n"
                    /\ eol(h) <= Len(s)
                    /\ run(dashes(h), {"-"}) >= 1
                    /\ ends(h) # {}}
        match(h) == <<h, CHOOSE e \in ends(h) : \A f \in ends(h) : f <= e>>
    IN  IF fits = {} THEN <<0, 0>>
        ELSE match(CHOOSE h \in fits : \A g \in fits : g <= h)

\* re.split(r'\s*([^\n]+\n\s*\s*-+\s*\n)', s)
RECURSIVE UnderlineSplit(_)
UnderlineSplit(s) ==
    LET split(first, m) ==
            <<StrTo(s, first - 1), SubSeq(s, m[1], m[2])>>
            \o UnderlineSplit(StrFrom(s, m[2]))
        leftmost(hits) ==
            IF hits = {} THEN <<s>>
            ELSE LET first == CHOOSE p \in hits : \A q \in hits : p <= q
                 IN  split(first, UnderlinedAt(s, first))
    IN  leftmost({p \in 1..Len(s) : UnderlinedAt(s, p) # <<0, 0>>})

\* str.lower() of the letters A to Z
ToLower(s) ==
    LET upper == <<"A", "B", "C", "D", "E", "F", "G", "H", "I", "J", "K",
                   "L", "M", "N", "O", "P", "Q", "R", "S", "T", "U", "V",
                   "W", "X", "Y", "Z">>
        lower == <<"a", "b", "c", "d", "e", "f", "g", "h", "i", "j", "k",
                   "l", "m", "n", "o", "p", "q", "r", "s", "t", "u", "v",
                   "w", "x", "y", "z">>
        low(c) == IF c \in Upper
                  THEN lower[CHOOSE k \in 1..26 : upper[k] = c] ELSE c
    IN  [i \in 1..Len(s) |-> low(s[i])]

\* re.match(r'parameters?\s*\n', header, re.I)
ParametersMatch(header) ==
    LET word == <<"p", "a", "r", "a", "m", "e", "t", "e", "r">>
        rest == StrFrom(header, Len(word))
        blank(r) == \E i \in 1..Len(r) :
                       r[i] = "\n" /\ \A k \in 1..i : r[k] \in Whitespace
    IN  /\ Len(header) >= Len(word)
        /\ ToLower(StrTo(header, Len(word))) = word
        /\ \/ blank(rest)
           \/ rest # <<>> /\ rest[1] \in {"s", "S"} /\ blank(Tail(rest))

\* the loop of numpy_doc_parser over the groups of one section
RECURSIVE NumpyParams(_, _)
NumpyParams(grps, param_docs) ==
    LET group == Head(grps)
        desc == Join(<<" ">>, [i \in 1..(Len(group) - 1) |->
                                  Strip(group[i + 1])])
    IN  IF grps = <<>> THEN param_docs
        ELSE NumpyParams(Tail(grps),
                 SetKey(param_docs, Strip(Partition(group[1], ":").head),
                        ParamInfo(desc, <<>>, NoChoices)))

\* the loop of numpy_doc_parser over the header and value pairs
RECURSIVE NumpySections(_, _)
NumpySections(parts, docs) ==
    LET section(grps) ==
            IF grps.raised # "none" THEN Raised(grps.raised)
            ELSE NumpySections(SubSeq(parts, 3, Len(parts)),
                               Returned(NumpyParams(grps.val, docs.val)))
    IN  IF Len(parts) < 2 \/ docs.raised # "none" THEN docs
        ELSE IF ~ParametersMatch(parts[1])
        THEN NumpySections(SubSeq(parts, 3, Len(parts)), docs)
        ELSE section(indented_groups(parts[2]))

\* numpy_doc_parser
numpy_doc_parser(text) ==
    LET outcome(main_doc, docs) ==
            IF docs.raised # "none" THEN Raised(docs.raised)
            ELSE DocRet(main_doc, docs.val)
        sections(main_doc, parts) ==
            IF Len(parts) <= 1 THEN DocRet(main_doc, EmptyMap)
            ELSE outcome(parts[1],
                         NumpySections(Tail(parts), Returned(EmptyMap)))
    IN  sections(cleandoc(text), UnderlineSplit(cleandoc(text)))

-----------------------------------------------------------------------------
(* The target callable *)

\* one parameter of a signature: its name, annotation ("" for none) and
\* default
Param(name, ann, default) == [name |-> name, ann |-> ann, default |-> default]

Names(params) == {params[i].name : i \in 1..Len(params)}

\* the calls get_calf makes to add_param, in order: <<parameter, kind>>
ParamList(f) ==
    [i \in 1..Len(f.args) |-> <<f.args[i], "pos">>]
    \o [i \in 1..Len(f.kwonlyargs) |-> <<f.kwonlyargs[i], "opt">>]
    \o [i \in 1..Len(f.varkw) |-> <<f.varkw[i], "varkw">>]
    \o [i \in 1..Len(f.varargs) |-> <<f.varargs[i], "var">>]

\* func(*pos, **kwd): how Python binds the arguments to the parameters of
\* the callable, or the TypeError it raises instead of entering the callable
Bind(f, p, k) ==
    LET npos == Len(f.args)
        index(key) == CHOOSE i \in 1..npos : f.args[i].name = key
        named == Names(f.args) \cup Names(f.kwonlyargs)
        toomany == Len(p) > npos /\ f.varargs = <<>>
        twice == \E key \in DOMAIN k :
                    key \in Names(f.args) /\ index(key) <= Len(p)
        unexpected == \E key \in DOMAIN k : key \notin named /\ f.varkw = <<>>
        missing == \/ \E i \in 1..npos :
                         /\ i > Len(p)
                         /\ f.args[i].name \notin DOMAIN k
                         /\ f.args[i].default = NO_DEFAULT
                   \/ \E i \in 1..Len(f.kwonlyargs) :
                         /\ f.kwonlyargs[i].name \notin DOMAIN k
                         /\ f.kwonlyargs[i].default = NO_DEFAULT
        default(key) ==
            LET all == f.args \o f.kwonlyargs
            IN  all[CHOOSE i \in 1..Len(all) : all[i].name = key].default
    IN  IF toomany \/ twice \/ unexpected \/ missing
        THEN [raised |-> "TypeError"]
        ELSE [raised |-> "none",
              bound  |-> [key \in named |->
                            IF key \in Names(f.args) /\ index(key) <= Len(p)
                            THEN p[index(key)]
                            ELSE IF key \in DOMAIN k THEN k[key]
                            ELSE default(key)],
              star   |-> StrFrom(p, npos),
              kw     |-> [key \in (DOMAIN k) \ named |-> k[key]]]

-----------------------------------------------------------------------------
(* The callables and the command lines the model runs *)

\* most parameters of a callable
MaxParams == 2

\* most caller-supplied selectors of a CalfRunner
MaxSelectors == 1

\* longest command line given to a CalfRunner with caller-supplied selectors
MaxSelArgs == 2

\* most tokens a standalone broker is given
MaxOverflow == 3

\* all sequences over S of length at most n
RECURSIVE SeqsUpTo(_, _)
SeqsUpTo(S, n) ==
    IF n = 0 THEN {<<>>}
    ELSE LET shorter == SeqsUpTo(S, n - 1)
         IN  shorter \cup {Append(q, x) : q \in shorter, x \in S}

\* the names of the positional parameters, by position
PosName(i) == IF i = 1 THEN <<"a">> ELSE <<"b">> \o DecimalString(i)

\* annotation and default of a positional parameter
PosMenu == { <<"int", NO_DEFAULT>>, <<"bool", NO_DEFAULT>>,
             <<"Optional[int]", NO_DEFAULT>>, <<"Name", NO_DEFAULT>>,
             <<"", VStr(<<"x">>)>> }

\* annotation and default of a keyword-only parameter
KwMenu == { <<"str", NO_DEFAULT>>, <<"bool", NO_DEFAULT>>,
            <<"", VStr(<<"x">>)>>, <<"int", VInt(7)>> }

\* Python rejects a parameter without default after one with a default
DefaultsLast(ps) ==
    \A i \in 1..Len(ps), j \in 1..Len(ps) :
        i < j /\ ps[i][2] # NO_DEFAULT => ps[j][2] # NO_DEFAULT

Signatures ==
    {[args       |-> [i \in 1..Len(ps) |-> Param(PosName(i), ps[i][1], ps[i][2])],
      kwonlyargs |-> [i \in 1..Len(ks) |-> Param(<<"c">>, ks[i][1], ks[i][2])],
      varargs    |-> [i \in 1..Len(va) |->
                         Param(<<"a", "r", "g", "s">>, va[i], NO_DEFAULT)],
      varkw      |-> [i \in 1..Len(vk) |->
                         Param(<<"k", "w">>, vk[i], NO_DEFAULT)]] :
        ps \in {q \in SeqsUpTo(PosMenu, MaxParams) : DefaultsLast(q)},
        ks \in SeqsUpTo(KwMenu, 1),
        va \in SeqsUpTo({"", "int"}, 1),
        vk \in SeqsUpTo({"str", "int"}, 1)}

\* the raw descriptions a doc parser found for a parameter
RawDescs == { <<"(", "-", "f", ")", " ", "d">>,
              <<"d", " ", "{", "5", ",", " ", "7", "}">> }

\* the named parameters of a signature, in order
NamedParams(f) == f.args \o f.kwonlyargs

\* the doc parser documents no parameter, or the last named one
Docs(f) ==
    {EmptyMap} \cup
    {[n \in {NamedParams(f)[Len(NamedParams(f))].name} |-> d] :
        d \in IF NamedParams(f) = <<>> THEN {} ELSE RawDescs}

Funcs ==
    UNION {{[sig |-> f, doc |-> d] : d \in Docs(f)} :
              f \in {g \in Signatures : Len(ParamList(g)) <= MaxParams}}

\* the tokens of the command lines: values, key=value pairs, and the
\* option strings of the keyword-only and boolean parameters
PlainTokens == { <<"5">>, <<"x">> }

KeyValTokens == { <<"k", "=", "5">>, <<"k", "=", "x">>, <<"a", "=", "5">> }

Tokens(fn) ==
    LET f == fn.sig
        flagged == {q \in Names(NamedParams(f)) :
                       \/ q \in Names(f.kwonlyargs)
                       \/ \E i \in 1..Len(f.args) :
                             f.args[i].name = q /\ f.args[i].ann = "bool"}
    IN  PlainTokens
        \cup (IF f.varkw # <<>> THEN KeyValTokens ELSE {})
        \cup {<<"-", "-">> \o q : q \in flagged}
        \cup {<<"-", "f">> : q \in {n \in DOMAIN fn.doc :
                                        /\ n \in flagged
                                        /\ ShortMatch(fn.doc[n]).ok}}

\* the option strings of the composite loader of NameSelector
CompositeTokens == { <<"-", "l">>, <<"-", "-">> \o firstname }

-----------------------------------------------------------------------------
(* CalfRunner: one invocation of __call__ *)

\* the refiner harness is idle
RefinerIdle == pinfo = NoInfo /\ pinfo_hist = <<>>

\* no text was given to indented_groups or to a doc parser
DocIdle == doc = <<>> /\ groups = None /\ docret = None

\* CalfRunner.__init__ with the given caller-supplied selectors, and the
\* entry into __call__(func, args)
InitRunner(fn, tokens, custom) ==
    /\ func = fn
    /\ args = tokens
    /\ selectors = custom \o <<"LoaderSelector">>
    /\ pc = "start"
    /\ phases = <<>>
    /\ param_info = EmptyMap
    /\ pi = 0
    /\ consulted = <<>>
    /\ arg_loaders = <<>>
    /\ registered = <<>>
    /\ parser = <<>>
    /\ namespace = EmptyMap
    /\ others = <<>>
    /\ remains = <<>>
    /\ li = 0
    /\ pos = <<>>
    /\ kwd = EmptyMap
    /\ exc = "none"
    /\ stderr = <<>>
    /\ ncalls = 0
    /\ received = None
    /\ result = None
    /\ calls = <<>>
    /\ RefinerIdle
    /\ DocIdle

\* calf.call(func, args): a CalfRunner without caller-supplied selectors
Init ==
    \E fn \in Funcs :
        \E n \in 0..MaxArgs :
            \E tokens \in [1..n -> Tokens(fn)] :
                InitRunner(fn, tokens, <<>>)

\* get_calf up to create_arg_parser: the doc parser ran, the refiner
\* refines every ParamInfo, the parser is created
DocParse ==
    /\ pc = "start"
    /\ param_info' = [n \in DOMAIN func.doc |->
                        basic_param_parser(
                            ParamInfo(func.doc[n], <<>>, NoChoices))]
    /\ parser' = <<>>
    /\ phases' = Append(phases, "doc")
    /\ pc' = "declare"
    /\ UNCHANGED <<func, args, selectors, pi, consulted, arg_loaders,
                   registered, namespace, others, remains, li, pos, kwd, exc,
                   stderr, ncalls, received, result,
                   pinfo, pinfo_hist, doc, groups, docret, calls>>

\* add_param: the annotation, else the type of the default, else str
DeclaredType(param) ==
    IF param.ann # "" THEN param.ann
    ELSE IF param.default # NO_DEFAULT THEN TypeOf(param.default) ELSE "str"

\* a selection that lets the last matching selector win
LastMatch(param, ptype, kind, info) ==
    CHOOSE k \in 1..Len(selectors) :
        /\ SelectorMatch(selectors[k], param, ptype, kind, info)
        /\ \A j \in (k + 1)..Len(selectors) :
              ~SelectorMatch(selectors[j], param, ptype, kind, info)

\* the first selector that matches, in the order of self._selectors
FirstMatch(param, ptype, kind, info) ==
    CHOOSE k \in 1..Len(selectors) :
        /\ SelectorMatch(selectors[k], param, ptype, kind, info)
        /\ \A j \in 1..(k - 1) :
              ~SelectorMatch(selectors[j], param, ptype, kind, info)

\* one iteration of the loops of get_calf: add_param for the next parameter
AddParam ==
    /\ pc = "declare"
    /\ pi < Len(ParamList(func.sig))
    /\ LET param   == ParamList(func.sig)[pi + 1][1]
           kind    == ParamList(func.sig)[pi + 1][2]
           ptype   == DeclaredType(param)
           info    == IF param.name \in DOMAIN param_info
                      THEN param_info[param.name] ELSE NoInfo
           k       == FirstMatch(param.name, ptype, kind, info)
           loader  == make_loader(selectors[k], param.name, ptype, kind,
                                  info, param.default)
           ci      == prepare(loader, [parser |-> parser,
                                       registered |-> registered])
       IN  /\ consulted' = consulted \o [j \in 1..k |-> <<param.name, j>>]
           /\ arg_loaders' = Append(arg_loaders, loader)
           /\ parser' = ci.parser
           /\ registered' = ci.registered
           /\ IF Conflict(ci.parser)
              THEN exc' = "ArgumentError" /\ pc' = "failed"
              ELSE UNCHANGED <<exc, pc>>
    /\ pi' = pi + 1
    /\ phases' = Append(phases, "declare")
    /\ UNCHANGED <<func, args, selectors, param_info, namespace, others,
                   remains, li, pos, kwd, stderr, ncalls, received, result,
                   pinfo, pinfo_hist, doc, groups, docret, calls>>

\* parse_args up to the call of distribute: the flag engine parses
EngineParse ==
    /\ pc = "declare"
    /\ pi = Len(ParamList(func.sig))
    /\ \E parsed \in {IF want_var_arg(registered)
                       THEN parse_known_args(parser, args)
                       ELSE parse_args_strict(parser, args)} :
          IF parsed.err
          THEN /\ exc' = "SystemExit(2)"
               /\ stderr' = Append(stderr, [error |-> "usage"])
               /\ pc' = "failed"
               /\ UNCHANGED <<namespace, others>>
          ELSE /\ namespace' = parsed.ns
               /\ others' = IF want_var_arg(registered)
                            THEN parsed.extras ELSE <<>>
               /\ pc' = "parsed"
               /\ UNCHANGED <<exc, stderr>>
    /\ phases' = Append(phases, "parse")
    /\ UNCHANGED <<func, args, selectors, param_info, pi, consulted,
                   arg_loaders, registered, parser, remains, li, pos, kwd,
                   ncalls, received, result,
                   pinfo, pinfo_hist, doc, groups, docret, calls>>

\* the end of parse_args: the broker distributes the unclaimed tokens
Distribute ==
    /\ pc = "parsed"
    /\ \E d \in {distribute(registered, namespace, others)} :
          /\ namespace' = d.ns
          /\ remains' = Merged(registered, namespace, others)
          /\ exc' = d.raised
          /\ pc' = IF d.raised = "none" THEN "load" ELSE "failed"
    /\ phases' = Append(phases, "distribute")
    /\ UNCHANGED <<func, args, selectors, param_info, pi, consulted,
                   arg_loaders, registered, parser, others, li, pos, kwd,
                   stderr, ncalls, received, result,
                   pinfo, pinfo_hist, doc, groups, docret, calls>>

\* one iteration of the loop of ns2params: the next loader loads
Load ==
    /\ pc = "load"
    /\ li < Len(arg_loaders)
    /\ \E l \in {load(arg_loaders[li + 1], namespace, pos, kwd)} :
          /\ pos' = l.pos
          /\ kwd' = l.kwd
          /\ exc' = l.raised
          /\ stderr' = stderr \o l.err
          /\ pc' = IF l.raised = "none" THEN "load" ELSE "failed"
    /\ li' = li + 1
    /\ phases' = Append(phases, "convert")
    /\ UNCHANGED <<func, args, selectors, param_info, pi, consulted,
                   arg_loaders, registered, parser, namespace, others,
                   remains, ncalls, received, result,
                   pinfo, pinfo_hist, doc, groups, docret, calls>>

\* return func(*pos, **kwd): the callable returns what it received
Invoke ==
    /\ pc = "load"
    /\ li = Len(arg_loaders)
    /\ \E b \in {Bind(func.sig, pos, kwd)} :
          IF b.raised # "none"
          THEN /\ exc' = b.raised
               /\ pc' = "failed"
               /\ UNCHANGED <<ncalls, received, result>>
          ELSE /\ ncalls' = ncalls + 1
               /\ received' = [bound |-> b.bound, star |-> b.star,
                               kw |-> b.kw]
               /\ result' = received'
               /\ pc' = "done"
               /\ UNCHANGED exc
    /\ phases' = Append(phases, "invoke")
    /\ UNCHANGED <<func, args, selectors, param_info, pi, consulted,
                   arg_loaders, registered, parser, namespace, others,
                   remains, li, pos, kwd, stderr,
                   pinfo, pinfo_hist, doc, groups, docret, calls>>

Next ==
    \/ DocParse
    \/ AddParam
    \/ EngineParse
    \/ Distribute
    \/ Load
    \/ Invoke

Spec == Init /\ [][Next]_vars

\* CalfRunner(selectors, ...)(func, args) with caller-supplied selectors
InitSelectors ==
    \E fn \in Funcs :
        \E custom \in SeqsUpTo({"NameSelector", "LoaderSelector"},
                               MaxSelectors) :
            \E n \in 0..MaxSelArgs :
                \E tokens \in [1..n -> Tokens(fn) \cup CompositeTokens] :
                    InitRunner(fn, tokens, custom)

SpecSelectors == InitSelectors /\ [][Next]_vars

-----------------------------------------------------------------------------
(* One CalfRunner invoked several times *)

\* most invocations of one runner
MaxCalls == 2

\* the callables a runner is invoked on: at most one positional parameter,
\* an integer, or both catch-alls
CallFuncs ==
    {fn \in Funcs :
        /\ fn.sig.kwonlyargs = <<>>
        /\ Len(fn.sig.args) <= 1
        /\ \A i \in 1..Len(fn.sig.args) : fn.sig.args[i].ann = "int"
        /\ \A n \in DOMAIN fn.doc : fn.doc[n] = <<"(", "-", "f", ")", " ", "d">>
        /\ Len(fn.sig.varargs) = Len(fn.sig.varkw)
        /\ \A i \in 1..Len(fn.sig.varargs) : fn.sig.varargs[i].ann = ""
        /\ \A i \in 1..Len(fn.sig.varkw) : fn.sig.varkw[i].ann = "str"}

\* the token lists of the invocations
CallArgs ==
    { <<>>, << <<"5">> >>, << <<"x">> >>,
      << <<"5">>, <<"k", "=", "5">> >>, << <<"k", "=", "5">>, <<"5">> >> }

\* a CalfInfo that keeps what the last invocation left in it
CalfInfo_shared ==
    [param_info |-> param_info, arg_loaders |-> arg_loaders,
     var_arg_broker |-> registered, parser |-> parser,
     namespace |-> namespace]

\* CalfInfo(): the object get_calf starts every invocation from
CalfInfo ==
    [param_info |-> EmptyMap, arg_loaders |-> <<>>,
     var_arg_broker |-> <<>>, parser |-> <<>>,
     namespace |-> EmptyMap]

InitRepeat ==
    \E fn \in CallFuncs :
        \E tokens \in CallArgs :
            InitRunner(fn, tokens, <<>>)

\* the runner is invoked again, after an invocation that returned or raised
Call ==
    /\ pc \in {"done", "failed"}
    /\ Len(calls) + 1 < MaxCalls
    /\ calls' = Append(calls, [func |-> func, args |-> args, exc |-> exc,
                               stderr |-> stderr, ncalls |-> ncalls,
                               result |-> result])
    /\ \E fn \in CallFuncs :
          \E tokens \in CallArgs :
              /\ func' = fn
              /\ args' = tokens
    /\ \E ci \in {CalfInfo} :
          /\ param_info' = ci.param_info
          /\ arg_loaders' = ci.arg_loaders
          /\ registered' = ci.var_arg_broker
          /\ parser' = ci.parser
          /\ namespace' = ci.namespace
    /\ pc' = "start"
    /\ phases' = <<>>
    /\ pi' = 0
    /\ consulted' = <<>>
    /\ others' = <<>>
    /\ remains' = <<>>
    /\ li' = 0
    /\ pos' = <<>>
    /\ kwd' = EmptyMap
    /\ exc' = "none"
    /\ stderr' = <<>>
    /\ ncalls' = 0
    /\ received' = None
    /\ result' = None
    /\ UNCHANGED <<selectors, pinfo, pinfo_hist, doc, groups, docret>>

SpecRepeat == InitRepeat /\ [][Next \/ Call]_vars

-----------------------------------------------------------------------------
(* A VarArgBroker on its own: two registrations in either order, and       *)
(* distribute(namespace, others)                                           *)

\* a callable with *args and **kw, whose loaders registered with the broker
BrokerFunc ==
    [sig |-> [args       |-> <<>>,
              kwonlyargs |-> <<>>,
              varargs    |-> <<Param(<<"a", "r", "g", "s">>, "", NO_DEFAULT)>>,
              varkw      |-> <<Param(<<"k", "w">>, "str", NO_DEFAULT)>>],
     doc |-> EmptyMap]

\* the calls of register_var that VarArgLoader.prepare and
\* MapArgLoader.prepare make
Registrations ==
    { <<AcceptAll, <<"a", "r", "g", "s">> >>,
      <<KeyValPattern, <<"k", "w">> >> }

\* the tokens a broker is given; the third starts with '=', the last is ''
BrokerTokens ==
    { <<"x">>, <<"k", "=", "5">>, <<"=", "5">>, <<"a", "=">>, <<>> }

InitBroker ==
    \E r1 \in Registrations :
        \E r2 \in Registrations \ {r1} :
            \E n \in 0..MaxOverflow :
                \E tokens \in [1..n -> BrokerTokens] :
                    \E cut \in 0..n :
                        /\ func = BrokerFunc
                        /\ args = tokens
                        /\ selectors = <<"LoaderSelector">>
                        /\ pc = "parsed"
                        /\ phases = <<>>
                        /\ param_info = EmptyMap
                        /\ pi = 0
                        /\ consulted = <<>>
                        /\ arg_loaders = <<>>
                        /\ registered =
                              register_var(register_var(<<>>, r1[1], r1[2]),
                                           r2[1], r2[2])
                        /\ parser = <<>>
                        /\ namespace =
                              [q \in {r1[2], r2[2]} |->
                                  IF q = r1[2] THEN VList(StrTo(tokens, cut))
                                  ELSE VList(<<>>)]
                        /\ others = StrFrom(tokens, cut)
                        /\ remains = <<>>
                        /\ li = 0
                        /\ pos = <<>>
                        /\ kwd = EmptyMap
                        /\ exc = "none"
                        /\ stderr = <<>>
                        /\ ncalls = 0
                        /\ received = None
                        /\ result = None
                        /\ calls = <<>>
                        /\ RefinerIdle
                        /\ DocIdle

NextBroker == Distribute

SpecBroker == InitBroker /\ [][NextBroker]_vars

-----------------------------------------------------------------------------
(* basic_param_parser on its own, applied again and again to a ParamInfo   *)

\* the pieces the descriptions of a doc comment are made of
Pieces ==
    { <<"(", "-", "f", ")", " ">>, <<"(", "-", "g", ")">>, <<"d">>,
      <<" ", "{", "5", ",", " ", "7", "}">>, <<" ", "{", "a", ",", "b", "}", ".">>,
      <<" ", "{", "5", "}">> }

RECURSIVE Concat(_)
Concat(seqs) == IF seqs = <<>> THEN <<>> ELSE Head(seqs) \o Concat(Tail(seqs))

\* ParamInfo(desc), as the doc parsers make it
InitRefiner ==
    \E n \in 0..MaxPieces :
        \E pieces \in [1..n -> Pieces] :
            /\ pinfo = ParamInfo(Concat(pieces), <<>>, NoChoices)
            /\ pinfo_hist = <<>>
            /\ func = BrokerFunc
            /\ args = <<>>
            /\ selectors = <<"LoaderSelector">>
            /\ pc = "idle"
            /\ phases = <<>>
            /\ param_info = EmptyMap
            /\ pi = 0
            /\ consulted = <<>>
            /\ arg_loaders = <<>>
            /\ registered = <<>>
            /\ parser = <<>>
            /\ namespace = EmptyMap
            /\ others = <<>>
            /\ remains = <<>>
            /\ li = 0
            /\ pos = <<>>
            /\ kwd = EmptyMap
            /\ exc = "none"
            /\ stderr = <<>>
            /\ ncalls = 0
            /\ received = None
            /\ result = None
            /\ calls = <<>>
            /\ DocIdle

\* self._param_parser(pinfo): the refiner rewrites the ParamInfo in place
Refine ==
    /\ pc = "idle"
    /\ Len(pinfo_hist) < MaxRefine
    /\ pinfo' = basic_param_parser(pinfo)
    /\ pinfo_hist' = Append(pinfo_hist, pinfo')
    /\ UNCHANGED <<pipeline_vars, doc, groups, docret>>

NextRefiner == Refine

SpecRefiner == InitRefiner /\ [][NextRefiner]_vars

-----------------------------------------------------------------------------
(* A VarArgBroker whose targets hold tokens before distribute: one or two   *)
(* registrations out of a catch-all, the key=value pattern and a substring  *)

\* most tokens a target holds before distribute
MaxHeld == 1

InitHeld ==
    LET menu == { <<AcceptAll, <<"a", "r", "g", "s">> >>,
                  <<KeyValPattern, <<"k", "w">> >>,
                  <<[re |-> FALSE, s |-> <<"x">>], <<"x", "s">> >> }
        tokens == { <<"x">>, <<"k", "=", "5">>, <<"5">> }
    IN  \E regs \in {q \in SeqsUpTo(menu, 2) :
                        /\ q # <<>>
                        /\ \A i \in 1..Len(q), j \in 1..Len(q) :
                              q[i] = q[j] => i = j} :
            \E held \in [{regs[i][2] : i \in 1..Len(regs)}
                            -> SeqsUpTo(tokens, MaxHeld)] :
                \E leftover \in SeqsUpTo(tokens, MaxOverflow) :
                    /\ func = BrokerFunc
                    /\ args = leftover
                    /\ selectors = <<"LoaderSelector">>
                    /\ pc = "parsed"
                    /\ phases = <<>>
                    /\ param_info = EmptyMap
                    /\ pi = 0
                    /\ consulted = <<>>
                    /\ arg_loaders = <<>>
                    /\ registered =
                          [i \in 1..Len(regs) |->
                              [var_ident |-> regs[i][1], param |-> regs[i][2]]]
                    /\ parser = <<>>
                    /\ namespace = [q \in DOMAIN held |-> VList(held[q])]
                    /\ others = leftover
                    /\ remains = <<>>
                    /\ li = 0
                    /\ pos = <<>>
                    /\ kwd = EmptyMap
                    /\ exc = "none"
                    /\ stderr = <<>>
                    /\ ncalls = 0
                    /\ received = None
                    /\ result = None
                    /\ calls = <<>>
                    /\ RefinerIdle
                    /\ DocIdle

SpecHeld == InitHeld /\ [][Distribute]_vars

-----------------------------------------------------------------------------
(* indented_groups on its own *)

\* most lines of a text given to indented_groups
MaxGroupLines == 4

\* the lines of the texts: indented by blanks and by a tab, blank lines
GroupLines ==
    { <<"a">>, <<" ", "b">>, <<" ", " ", "c">>, <<>>, <<" ">>,
      <<"\t", "d">> }

\* no invocation of a runner is in progress
PipelineIdle ==
    /\ func = BrokerFunc
    /\ args = <<>>
    /\ selectors = <<"LoaderSelector">>
    /\ pc = "idle"
    /\ phases = <<>>
    /\ param_info = EmptyMap
    /\ pi = 0
    /\ consulted = <<>>
    /\ arg_loaders = <<>>
    /\ registered = <<>>
    /\ parser = <<>>
    /\ namespace = EmptyMap
    /\ others = <<>>
    /\ remains = <<>>
    /\ li = 0
    /\ pos = <<>>
    /\ kwd = EmptyMap
    /\ exc = "none"
    /\ stderr = <<>>
    /\ ncalls = 0
    /\ received = None
    /\ result = None
    /\ calls = <<>>

InitGrouper ==
    \E n \in 0..MaxGroupLines :
        \E lines \in [1..n -> GroupLines] :
            /\ doc = Join(<<"\n">>, lines)
            /\ groups = None
            /\ docret = None
            /\ PipelineIdle
            /\ RefinerIdle

\* list(indented_groups(doc))
Group ==
    /\ pc = "idle"
    /\ groups = None
    /\ groups' = indented_groups(doc)
    /\ UNCHANGED <<pipeline_vars, refiner_vars, doc, docret>>

SpecGrouper == InitGrouper /\ [][Group]_vars

-----------------------------------------------------------------------------
(* The doc parsers on their own *)

\* most lines of a doc comment
MaxDocLines == 4

\* the lines of the doc comments: a summary, a blank line, section headers,
\* parameter lines of the three dialects, an underline, a continuation line
DocLines ==
    { <<"f">>,
      <<>>,
      <<" ", "A", "r", "g", "s", ":">>,
      <<" ", " ", "x", ":", " ", "d">>,
      <<" ", "R", "e", "t", "u", "r", "n", "s", ":">>,
      <<" ", " ", "r">>,
      <<" ", ":", "p", "a", "r", "a", "m", " ", "x", ":", " ", "d">>,
      <<" ", "P", "a", "r", "a", "m", "e", "t", "e", "r", "s">>,
      <<" ", "-", "-", "-">>,
      <<" ", " ", " ", "c">> }

InitDoc ==
    \E n \in 0..MaxDocLines :
        \E lines \in [1..n -> DocLines] :
            /\ doc = Join(<<"\n">>, lines)
            /\ groups = None
            /\ docret = None
            /\ PipelineIdle
            /\ RefinerIdle

\* a doc parser is applied to the text
Parsed(dialect, ret) ==
    /\ pc = "idle"
    /\ docret = None
    /\ docret' = [parser |-> dialect, raised |-> ret.raised, ret |-> ret.val]
    /\ UNCHANGED <<pipeline_vars, refiner_vars, doc, groups>>

NextDoc ==
    \/ Parsed("plain", plain_doc_parser(doc))
    \/ Parsed("google", google_doc_parser(doc))
    \/ Parsed("sphinx", sphinx_doc_parser(doc))
    \/ Parsed("numpy", numpy_doc_parser(doc))

SpecDoc == InitDoc /\ [][NextDoc]_vars

-----------------------------------------------------------------------------
(* The properties *)

\* the phases, in the order of the pipeline
Rank(phase) ==
    CASE phase = "doc" -> 1 [] phase = "declare" -> 2 [] phase = "parse" -> 3
      [] phase = "distribute" -> 4 [] phase = "convert" -> 5
      [] phase = "invoke" -> 6

\* how many times the phase was executed
Count(phase) == Cardinality({i \in 1..Len(phases) : phases[i] = phase})

\* some registration of the broker accepts the token
Classified(tok) ==
    \E r \in 1..Len(registered) : _match_arg(registered[r].var_ident, tok)

\* the declared type turns every raw value of the loader into a value
RECURSIVE Convertible(_)
Convertible(loader) ==
    LET raw == namespace[loader.param]
        fine(val) == Construct(loader.ptype, val).raised = "none"
    IN  CASE loader.cls = "CompositeArgLoader" ->
               \A i \in 1..Len(loader.subloaders) :
                   Convertible(loader.subloaders[i])
          [] loader.cls = "VarArgLoader" ->
               \A i \in 1..Len(raw.v) : fine(VStr(raw.v[i]))
          [] loader.cls = "MapArgLoader" ->
               \A i \in 1..Len(raw.v) :
                   fine(VStr(Partition(raw.v[i], "=").tail))
          [] OTHER -> raw = None \/ fine(raw)

\* C1: the phases of an invocation happen in the order doc-comment parse,
\* loader declaration, flag-engine parse, overflow distribution, conversion,
\* invocation; the callable is entered at most once, only after every
\* parameter was declared, every leftover token was classified and every
\* loader converted its values; after a failure it is never entered; and
\* what __call__ returns is what the callable returned.
C1_PipelineOrder ==
    /\ \A i \in 1..Len(phases), j \in 1..Len(phases) :
          i < j => Rank(phases[i]) <= Rank(phases[j])
    /\ \A phase \in {"doc", "parse", "distribute", "invoke"} :
          Count(phase) <= 1
    /\ ncalls <= 1
    /\ exc # "none" => ncalls = 0 /\ result = None
    /\ ncalls = 1 =>
          /\ Count("doc") = 1 /\ Count("parse") = 1 /\ Count("distribute") = 1
          /\ Count("declare") = Len(ParamList(func.sig))
          /\ Count("convert") = Len(arg_loaders)
          /\ phases[Len(phases)] = "invoke"
          /\ \A k \in 1..Len(remains) : Classified(remains[k])
          /\ \A i \in 1..Len(arg_loaders) : Convertible(arg_loaders[i])
          /\ result = received

C1_Witness ==
    /\ pc = "done" /\ ncalls = 1
    /\ Len(arg_loaders) = 2
    /\ Len(remains) >= 2

\* a token contains the character '='
HasEquals(tok) == \E i \in 1..Len(tok) : tok[i] = "="

\* the callable has no parameter but **kwargs
OnlyVarKw(f) ==
    f.args = <<>> /\ f.kwonlyargs = <<>> /\ f.varargs = <<>> /\ f.varkw # <<>>

\* C4: once the broker has run, the invocation has failed with ValueError
\* exactly if some token of the merged sequence matches no registration (for
\* a callable with only **kwargs: some token without '='); then no loader
\* has run, nothing was converted or written to the error stream, and the
\* callable was not entered.
C4_ClassificationError ==
    Count("distribute") = 1 =>
        /\ exc = "ValueError" <=>
              \E k \in 1..Len(remains) : ~Classified(remains[k])
        /\ OnlyVarKw(func.sig) /\ (\E k \in 1..Len(args) : ~HasEquals(args[k]))
              => exc = "ValueError"
        /\ exc = "ValueError" =>
              /\ pc = "failed"
              /\ li = 0 /\ pos = <<>> /\ kwd = EmptyMap
              /\ Count("convert") = 0
              /\ stderr = <<>>
              /\ ncalls = 0

C4_Witness ==
    /\ OnlyVarKw(func.sig)
    /\ args = << <<"x">> >>
    /\ exc = "ValueError"

\* the decision table of the loader selection
LoaderTable(kind, type) ==
    CASE kind = "opt" \/ (kind = "pos" /\ type = "bool") -> "OptArgLoader"
      [] kind = "var" -> "VarArgLoader"
      [] kind = "varkw" -> "MapArgLoader"
      [] OTHER -> "PosArgLoader"

\* C6: the default selector gives every parameter the loader of the decision
\* table over its kind and its declared type, whatever its ParamInfo and its
\* default are.
C6_LoaderTable ==
    \A i \in 1..Len(arg_loaders) :
        arg_loaders[i].cls =
            LoaderTable(ParamList(func.sig)[i][2],
                        DeclaredType(ParamList(func.sig)[i][1]))

C6_Witness ==
    /\ pc = "done"
    /\ \E i \in 1..Len(arg_loaders) :
          /\ arg_loaders[i].cls = "OptArgLoader"
          /\ ParamList(func.sig)[i][2] = "pos"
          /\ arg_loaders[i].info.present
    /\ \E i \in 1..Len(arg_loaders) : arg_loaders[i].cls = "PosArgLoader"

\* the index of the first selector that matches the i-th parameter
Winner(i) ==
    LET param == ParamList(func.sig)[i][1]
        info == IF param.name \in DOMAIN param_info
                THEN param_info[param.name] ELSE NoInfo
        hit(k) == SelectorMatch(selectors[k], param.name, DeclaredType(param),
                                ParamList(func.sig)[i][2], info)
    IN  CHOOSE k \in 1..Len(selectors) : hit(k) /\ \A j \in 1..(k - 1) : ~hit(j)

\* the match calls add_param makes for the parameters i..n
RECURSIVE MatchCalls(_, _)
MatchCalls(i, n) ==
    IF i > n THEN <<>>
    ELSE [j \in 1..Winner(i) |-> <<ParamList(func.sig)[i][1].name, j>>]
         \o MatchCalls(i + 1, n)

\* C7: add_param asks the selectors in their order, the caller-supplied ones
\* before the default one, and stops at the first that matches; that
\* selector builds the loader, so that every parameter handled so far has
\* exactly one loader, and after get_calf every parameter of the signature.
C7_FirstSelectorWins ==
    /\ selectors[Len(selectors)] = "LoaderSelector"
    /\ Len(arg_loaders) = pi
    /\ \A i \in 1..pi :
          /\ arg_loaders[i].param = ParamList(func.sig)[i][1].name
          /\ arg_loaders[i].cls = "CompositeArgLoader"
                <=> selectors[Winner(i)] = "NameSelector"
    /\ consulted = MatchCalls(1, pi)
    /\ Count("parse") = 1 => pi = Len(ParamList(func.sig))

C7_Witness ==
    /\ pc = "done"
    /\ selectors = <<"NameSelector", "LoaderSelector">>
    /\ \E i \in 1..Len(arg_loaders) : arg_loaders[i].cls = "CompositeArgLoader"
    /\ \E i \in 1..Len(arg_loaders) : arg_loaders[i].cls = "PosArgLoader"

\* the token is key=value-shaped: it does not start with '=' and holds one
KeyValShaped(tok) ==
    /\ Len(tok) >= 2
    /\ tok[1] # "="
    /\ \E i \in 2..Len(tok) : tok[i] = "="

\* the text before and the text after the first '=' of a token
KeyOf(tok) ==
    SubSeq(tok, 1, (CHOOSE i \in 1..Len(tok) :
                        tok[i] = "=" /\ \A j \in 1..(i - 1) : tok[j] # "=") - 1)

ValueOf(tok) == SubSeq(tok, Len(KeyOf(tok)) + 2, Len(tok))

\* the token is a run of decimal digits
Numeric(tok) == tok # <<>> /\ \A i \in 1..Len(tok) : tok[i] \in Digits

\* the value the declared type makes of a token it can convert
Typed(type, tok) ==
    IF type # "int" THEN VStr(tok)
    ELSE IF Numeric(tok) THEN VInt(DecimalValue(tok)) ELSE None

\* the callable has *args and **kwargs
BothCatchAll(f) == f.varargs # <<>> /\ f.varkw # <<>>

\* the callable has no named parameter
NoNamed(f) == f.args = <<>> /\ f.kwonlyargs = <<>>

PositionalFirst ==
    /\ Len(registered) = 2
    /\ registered[1].var_ident = AcceptAll
    /\ registered[2].var_ident = KeyValPattern

KeywordFirst ==
    /\ Len(registered) = 2
    /\ registered[1].var_ident = KeyValPattern
    /\ registered[2].var_ident = AcceptAll

\* the tokens the broker has put into the positional and the keyword target
InPositional == namespace[<<"a", "r", "g", "s">>].v

InKeyword == namespace[<<"k", "w">>].v

\* C3, as stated: with the catch-all-positional registered first and the
\* catch-all-keyword second, distribute puts every token that is not
\* key=value-shaped into the positional target and every key=value-shaped
\* token into the keyword target, in input order.
C3_AsStated ==
    PositionalFirst /\ Count("distribute") = 1 =>
        /\ InPositional = SelectSeq(args, LAMBDA t : ~KeyValShaped(t))
        /\ InKeyword = SelectSeq(args, KeyValShaped)

\* C3: with the catch-all-keyword registered first and the
\* catch-all-positional second (the order get_calf registers them in),
\* distribute puts every token that is not key=value-shaped into the
\* positional target and every key=value-shaped token into the keyword
\* target, in input order, and raises nothing; with the positional
\* registered first every token lands in the positional target.
C3_Broker ==
    Count("distribute") = 1 =>
        /\ remains = args
        /\ exc = "none"
        /\ KeywordFirst =>
              /\ InPositional = SelectSeq(args, LAMBDA t : ~KeyValShaped(t))
              /\ InKeyword = SelectSeq(args, KeyValShaped)
        /\ PositionalFirst => InPositional = args /\ InKeyword = <<>>

C3_Witness ==
    /\ KeywordFirst
    /\ Count("distribute") = 1
    /\ Len(InPositional) >= 2
    /\ Len(InKeyword) >= 1
    /\ others # <<>>

\* C5, as stated: whenever the declared type fails to construct the raw
\* value of a loader, the invocation writes a conversion error naming the
\* value and the type on the error stream and exits with a non-zero status,
\* the callable is not entered and no later loader runs.
C5_AsStated ==
    /\ pc \in {"load", "failed", "done"}
    /\ li >= 1
    /\ ~Convertible(arg_loaders[li])
    => /\ exc = "SystemExit(1)"
       /\ \E k \in 1..Len(stderr) :
             /\ stderr[k].error = "conversion"
             /\ stderr[k].type = arg_loaders[li].ptype
       /\ pc = "failed"
       /\ ncalls = 0

\* the option string of the loader, long or short, is on the command line
Flagged(loader) ==
    \E k \in 1..Len(args) :
        \/ args[k] = <<"-", "-">> \o loader.param
        \/ loader.info.present /\ loader.info.short # <<>>
                               /\ args[k] = loader.info.short

\* C8, as stated: of the parameters of the Option loader, a boolean one
\* takes no value and is True exactly if its long or its short option
\* string is on the command line; one that is not boolean and has a default
\* yields the default when its option is omitted; one that is not boolean
\* and has no default is required: when it is omitted the flag-engine parse
\* fails and the callable is not entered.
C8_AsStated ==
    \A i \in 1..Len(arg_loaders) :
        LET l == arg_loaders[i]
        IN  l.cls = "OptArgLoader" =>
              /\ l.ptype = "bool" =>
                    /\ parser[i].nargs = "0"
                    /\ pc = "done" =>
                          received.bound[l.param] = VBool(Flagged(l))
              /\ l.ptype # "bool" /\ l.default # NO_DEFAULT /\ ~Flagged(l)
                 /\ pc = "done" => received.bound[l.param] = l.default
              /\ l.ptype # "bool" /\ l.default = NO_DEFAULT /\ ~Flagged(l)
                 /\ Count("parse") = 1 =>
                    /\ exc = "SystemExit(2)"
                    /\ pc = "failed"
                    /\ Count("distribute") = 0
                    /\ ncalls = 0

\* how many of the first i loaders are positional loaders
PosIndex(i) ==
    Cardinality({j \in 1..i : arg_loaders[j].cls = "PosArgLoader"})

\* no token of the command line is an option string or key=value-shaped
AllPlain ==
    \A k \in 1..Len(args) :
        /\ ~KeyValShaped(args[k])
        /\ args[k] # <<>> => args[k][1] # "-"

\* C9: a parameter declared optional-of-T gets a loader that converts with
\* T, and None as its default when it has no default of its own; as a
\* positional parameter it is passed as None, unconverted, when the command
\* line has no token for it, and as the token converted with T when one is
\* supplied.
C9_OptionalOfT ==
    \A i \in 1..Len(arg_loaders) :
        LET param == ParamList(func.sig)[i][1]
            l == arg_loaders[i]
            type == DeclaredType(param)
            given == received.bound[param.name]
        IN  type \in DOMAIN OptionalArg /\ l.cls # "CompositeArgLoader" =>
              /\ l.ptype = OptionalArg[type]
              /\ param.default = NO_DEFAULT => l.default = None
              /\ l.cls = "PosArgLoader" /\ pc = "done" =>
                    /\ Len(args) < PosIndex(i) /\ param.default = NO_DEFAULT
                          => given = None
                    /\ AllPlain /\ Len(args) >= PosIndex(Len(arg_loaders))
                          => given = Typed(l.ptype, args[PosIndex(i)])
                    /\ given # l.default
                          => \E k \in 1..Len(args) :
                                given = Typed(l.ptype, args[k])

C9_Witness ==
    /\ pc = "done"
    /\ args = << <<"5">> >>
    /\ Len(arg_loaders) = 2
    /\ DeclaredType(ParamList(func.sig)[2][1]) = "Optional[int]"
    /\ received.bound[<<"a">>] = VInt(5)
    /\ received.bound[ParamList(func.sig)[2][1].name] = None

\* C10, as stated: basic_param_parser is idempotent: a second application
\* to a ParamInfo changes nothing of what the first one produced.
C10_AsStated ==
    Len(pinfo_hist) >= 2 => pinfo_hist[2] = pinfo_hist[1]

\* the description starts with a parenthesised short flag
FlagLed(desc) ==
    /\ Len(desc) >= 4
    /\ desc[1] = "(" /\ desc[2] = "-" /\ desc[3] \in AlNum /\ desc[4] = ")"

\* the position of the closing brace the description ends with, one of
\* '.', ',' and ';' allowed after it, or 0
BraceEnd(desc) ==
    IF desc # <<>> /\ desc[Len(desc)] = "}" THEN Len(desc)
    ELSE IF /\ Len(desc) >= 2
            /\ desc[Len(desc)] \in {".", ",", ";"}
            /\ desc[Len(desc) - 1] = "}"
    THEN Len(desc) - 1
    ELSE 0

\* the position of the opening brace of that brace expression, or 0
BraceStart(desc) ==
    LET open == {i \in 1..(BraceEnd(desc) - 1) :
                    /\ desc[i] = "{"
                    /\ \A k \in (i + 1)..(BraceEnd(desc) - 1) :
                          desc[k] \notin {"{", "}"}}
    IN  IF open = {} THEN 0 ELSE CHOOSE i \in open : TRUE

\* the text between the braces
Listed(desc) == SubSeq(desc, BraceStart(desc) + 1, BraceEnd(desc) - 1)

\* the items of a comma-separated list, trimmed, in listed order
RECURSIVE Items(_)
Items(s) ==
    IF \E i \in 1..Len(s) : s[i] = ","
    THEN <<Strip(StrTo(s, FirstIndex(s, ",") - 1))>>
         \o Items(StrFrom(s, FirstIndex(s, ",")))
    ELSE <<Strip(s)>>

Indentation(line) == LeadingRun(line, {" "})

\* the lines of the text that are not blank, tab-expanded
NonBlankLines(text) ==
    LET lines == SelectSeq(SplitLines(text),
                           LAMBDA l : \E i \in 1..Len(l) : l[i] \notin Whitespace)
    IN  [i \in 1..Len(lines) |-> expandtabs(lines[i])]

\* the lines before the first one that is indented less than the first line
LeadingSection(lines) ==
    LET less == {i \in 1..Len(lines) :
                    Indentation(lines[i]) < Indentation(lines[1])}
    IN  IF less = {} THEN lines
        ELSE StrTo(lines, (CHOOSE i \in less : \A j \in less : i <= j) - 1)

\* C12: indented_groups raises nothing; with k the indentation of the first
\* non-blank line of the text, every line of every group is indented by at
\* least k, and the lines of the groups, in the order they are yielded, are
\* the non-blank, tab-expanded lines of the text up to the first line that
\* is indented less than k; a text with no non-blank line (the empty text
\* too) yields no group.
C12_Grouper ==
    groups # None =>
        /\ groups.raised = "none"
        /\ \A g \in 1..Len(groups.val) :
              /\ groups.val[g] # <<>>
              /\ \A i \in 1..Len(groups.val[g]) :
                    Indentation(groups.val[g][i])
                        >= Indentation(NonBlankLines(doc)[1])
        /\ Concat(groups.val) = LeadingSection(NonBlankLines(doc))
        /\ NonBlankLines(doc) = <<>> => groups.val = <<>>

C12_Witness ==
    /\ groups # None
    /\ groups.raised = "none"
    /\ Len(groups.val) = 2
    /\ Len(groups.val[1]) = 2
    /\ Len(NonBlankLines(doc)) = 4
    /\ \E i \in 1..Len(doc) : doc[i] = "\t"

\* the lines of the cleaned text
CleanLines(text) == SplitLines(cleandoc(text))

\* the line holds nothing but whitespace
Blank(line) == \A i \in 1..Len(line) : line[i] \in Whitespace

\* the line is a section header of the Google style: a section name, a
\* colon, and nothing but whitespace after it
IsSectionHeader(line, names) ==
    \E w \in names :
        /\ Len(line) > Len(w)
        /\ StrTo(line, Len(w)) = w
        /\ line[Len(w) + 1] = ":"
        /\ Blank(StrFrom(line, Len(w) + 1))

\* the line is a field of the Sphinx style: ':' or '@', and a later ':'
IsField(line) ==
    /\ line # <<>>
    /\ line[1] \in {":", "@"}
    /\ \E j \in 2..Len(line) : line[j] = ":"

\* the line is an underline of dashes
IsUnderline(line) ==
    /\ ~Blank(line)
    /\ \A i \in 1..Len(line) : line[i] \in Whitespace \cup {"-"}
    /\ \A i \in 1..Len(line), j \in 1..Len(line) :
          i < j /\ line[i] = "-" /\ line[j] = "-" =>
              \A k \in i..j : line[k] = "-"

\* the lines i and j are a header of the Numpy style and its underline: only
\* blank lines are between them and a line break ends the underline
IsUnderlined(lines, i, j) ==
    /\ i < j /\ j < Len(lines)
    /\ lines[i] # <<>>
    /\ IsUnderline(lines[j])
    /\ \A k \in (i + 1)..(j - 1) : Blank(lines[k])

\* the text has the section structure the dialect recognises
Structured(dialect, text) ==
    LET lines == CleanLines(text)
    IN  CASE dialect = "plain" -> FALSE
          [] dialect = "google" ->
               \E i \in 1..Len(lines) : IsSectionHeader(lines[i], SectionNames)
          [] dialect = "sphinx" -> \E i \in 1..Len(lines) : IsField(lines[i])
          [] dialect = "numpy" ->
               \E i \in 1..Len(lines), j \in 1..Len(lines) :
                   IsUnderlined(lines, i, j)

\* C13: none of the four doc parsers raises, whatever the text is; for a
\* text without the section structure of the dialect the parser returns the
\* cleaned text as the summary and an empty parameter map; for the empty
\* text it returns an empty summary and an empty parameter map.
C13_FailSoft ==
    docret # None =>
        /\ docret.raised = "none"
        /\ ~Structured(docret.parser, doc) =>
              /\ docret.ret.summary = cleandoc(doc)
              /\ docret.ret.params = EmptyMap
        /\ doc = <<>> =>
              /\ docret.ret.summary = <<>>
              /\ docret.ret.params = EmptyMap

C13_Witness ==
    /\ docret # None
    /\ docret.parser = "numpy"
    /\ ~Structured("numpy", doc)
    /\ \E i \in 1..Len(CleanLines(doc)) : IsUnderline(CleanLines(doc)[i])
    /\ docret.ret.summary = cleandoc(doc)
    /\ Len(CleanLines(doc)) >= 3

\* the least element of a set of numbers that is not empty
Least(S) == CHOOSE x \in S : \A y \in S : x <= y

\* the name a parameter line of the Google style documents
DocumentedName(line) == FirstWord(Strip(Partition(line, ":").head))

\* C16, as stated: the Google-style parser returns as summary exactly the
\* text before the first section-header line, and every entry of its
\* parameter map is documented by a line of the block that follows the
\* 'Args' or 'Arg' header and ends at the next section header; the lines of
\* any other section, also after an empty Args section, give no entry.
C16_AsStated ==
    docret # None /\ docret.parser = "google" /\ docret.raised = "none" =>
        LET lines == CleanLines(doc)
            heads == {i \in 1..Len(lines) :
                         IsSectionHeader(lines[i], SectionNames)}
            argheads == {i \in 1..Len(lines) :
                            IsSectionHeader(lines[i], ArgsNames)}
            later == {i \in heads : i > Least(argheads)}
            block == (Least(argheads) + 1)
                         ..((IF later = {} THEN Len(lines) + 1
                             ELSE Least(later)) - 1)
        IN  /\ heads = {} => docret.ret.summary = cleandoc(doc)
            /\ heads # {} =>
                  docret.ret.summary =
                      Concat([i \in 1..(Least(heads) - 1) |->
                                 Append(lines[i], "\n")])
            /\ argheads = {} => docret.ret.params = EmptyMap
            /\ argheads # {} =>
                  \A name \in DOMAIN docret.ret.params :
                      \E i \in block : DocumentedName(lines[i]) = name


\* C14: no mutable state crosses the invocations of one runner: every
\* invocation starts from an empty parameter-info map, an empty loader
\* table and a broker without registrations, and an invocation that has
\* terminated ended as every earlier invocation of the same callable on the
\* same tokens ended (same exception, diagnostics and returned value).
C14_Fresh ==
    /\ pc = "start" =>
          /\ param_info = EmptyMap
          /\ arg_loaders = <<>>
          /\ registered = <<>>
    /\ pc \in {"done", "failed"} =>
          \A i \in 1..Len(calls) :
              calls[i].func = func /\ calls[i].args = args =>
                  /\ calls[i].exc = exc
                  /\ calls[i].stderr = stderr
                  /\ calls[i].ncalls = ncalls
                  /\ calls[i].result = result

\* a second invocation, of the same callable on the same tokens, returned
\* after an invocation whose loaders registered with the broker
C14_Witness ==
    /\ Len(calls) = 1
    /\ calls[1].func = func
    /\ calls[1].args = args
    /\ args # <<>>
    /\ registered # <<>>
    /\ pc = "done"

\* C15: a composite loader chosen by a custom selector declares its
\* sub-loaders to the flag engine in list order, after the arguments declared
\* before; when it loads without error it appends exactly one value to the
\* positional list, the constructor applied to what its sub-loaders loaded
\* (here two options, so two keyword values), and leaves the keyword map of
\* the caller as it was; on an empty command line the callable of one Name
\* parameter receives Name('Isaac', 'To').
C15_Composite ==
    [][LET declared == arg_loaders'[Len(arg_loaders')]
           loading == arg_loaders[li + 1]
           n == Len(parser)
       IN  /\ (pi' = pi + 1 /\ declared.cls = "CompositeArgLoader") =>
                 /\ Len(parser') = n + Len(declared.subloaders)
                 /\ SubSeq(parser', 1, n) = parser
                 /\ \A j \in 1..Len(declared.subloaders) :
                       /\ parser'[n + j].dest = declared.subloaders[j].param
                       /\ parser'[n + j].default
                             = declared.subloaders[j].default
           /\ (/\ li' = li + 1
               /\ loading.cls = "CompositeArgLoader"
               /\ exc' = "none") =>
                 /\ pos' = Append(pos, VName(namespace[firstname],
                                             namespace[lastname]))
                 /\ kwd' = kwd
           /\ (/\ pc' = "done"
               /\ args = <<>>
               /\ Len(arg_loaders) = 1
               /\ arg_loaders[1].cls = "CompositeArgLoader") =>
                 result'.bound[arg_loaders[1].param]
                     = VName(VStr(<<"I", "s", "a", "a", "c">>),
                             VStr(<<"T", "o">>))
      ]_vars

\* the callable returned the Name built from a first name given on the
\* command line and the default last name
C15_Witness ==
    /\ pc = "done"
    /\ selectors[1] = "NameSelector"
    /\ \E i \in 1..Len(arg_loaders) :
          /\ arg_loaders[i].cls = "CompositeArgLoader"
          /\ Len(pos) >= i
          /\ pos[i].t = "Name"
          /\ pos[i].v[1] # VStr(<<"I", "s", "a", "a", "c">>)
          /\ pos[i].v[2] = VStr(<<"T", "o">>)


\* the registrations whose matcher accepts the token
Accepting(tok) ==
    {k \in 1..Len(registered) : _match_arg(registered[k].var_ident, tok)}

\* the tokens of the sequence that go to the k-th registration: those it is
\* the earliest registration to accept, in the order of the sequence
Share(merged, k) ==
    SelectSeq(merged, LAMBDA tok :
                          Accepting(tok) # {} /\ Least(Accepting(tok)) = k)

\* C17: distribute with at least one registration merges the contents of
\* the first-registered target with the leftover tokens, in this order; it
\* raises exactly when some merged token is accepted by no registration;
\* when it raises nothing, the first-registered target holds afterwards its
\* share of the merged sequence and every other target what it held before
\* followed by its share, where the share of a registration is the
\* subsequence of the merged tokens it is the earliest to accept. So every
\* merged token is in exactly one target, once, and in merged order.
C17_Distribute ==
    [][pc = "parsed" /\ registered # <<>> =>
          LET merged == namespace[registered[1].param].v \o others
          IN  /\ remains' = merged
              /\ exc' = "none" <=>
                    \A i \in 1..Len(merged) : Accepting(merged[i]) # {}
              /\ exc' = "none" =>
                    \A k \in 1..Len(registered) :
                        namespace'[registered[k].param].v
                            = (IF k = 1 THEN <<>>
                               ELSE namespace[registered[k].param].v)
                              \o Share(merged, k)
      ]_vars

\* two registrations, the first not a catch-all; both targets held a token
\* before, and after distribute the second holds more than it did
C17_Witness ==
    /\ pc = "load"
    /\ Len(registered) = 2
    /\ registered[1].var_ident # AcceptAll
    /\ Len(remains) > Len(others)
    /\ others # <<>>
    /\ namespace[registered[1].param].v # <<>>
    /\ Len(namespace[registered[2].param].v) >= 2
    /\ namespace[registered[2].param].v[1] # remains[1]


\* the parameters of the catch-all arguments declared to the flag engine,
\* in declaration order
CatchAlls(prs) ==
    LET stars == SelectSeq(prs, LAMBDA a : a.nargs = "*")
    IN  [k \in 1..Len(stars) |-> stars[k].dest]

\* C18: at every point of an invocation the registrations of the broker are
\* the parameters of the catch-all arguments declared to the flag engine, in
\* declaration order; a registration is added only by the declaration of a
\* catch-all loader; distribute runs at most once, changes the argument
\* table only when a catch-all is registered and leaves it unchanged
\* otherwise; and without a registration a command line with a token the
\* flag engine cannot place ends in a usage error before the callable.
C18_Registrations ==
    /\ [](/\ [k \in 1..Len(registered) |-> registered[k].param]
                = CatchAlls(parser)
          /\ Count("distribute") <= 1
          /\ (/\ registered = <<>>
              /\ Count("parse") = 1
              /\ ~parse_known_args(parser, args).err
              /\ parse_known_args(parser, args).extras # <<>>) =>
                 /\ exc = "SystemExit(2)"
                 /\ Count("distribute") = 0
                 /\ ncalls = 0)
    /\ [][/\ registered' # registered =>
                /\ pi' = pi + 1
                /\ arg_loaders'[pi'].cls \in {"VarArgLoader", "MapArgLoader"}
                /\ registered' = Append(registered,
                                        registered'[Len(registered')])
                /\ registered'[Len(registered')].param = arg_loaders'[pi'].param
          /\ (Count("distribute")' = 1 /\ Count("distribute") = 0) =>
                /\ namespace' # namespace => registered # <<>>
                /\ registered = <<>> => namespace' = namespace /\ exc' = "none"
         ]_vars

\* distribute ran with two registrations and both targets hold tokens; the
\* callable was entered
C18_Witness ==
    /\ pc = "done"
    /\ Len(registered) = 2
    /\ Count("distribute") = 1
    /\ \A k \in 1..2 : namespace[registered[k].param].v # <<>>
    /\ [k \in 1..2 |-> arg_loaders[k].param] = CatchAlls(parser)


\* every loader has loaded, without an error
AllLoaded ==
    /\ Count("parse") = 1
    /\ li = Len(arg_loaders)
    /\ pc = "load" \/ Count("invoke") = 1

\* C19, as stated: once every loader has loaded, the value of the i-th
\* positional parameter that is in the positional list is the i-th value
\* of the list, no positional parameter has both a value in the positional
\* list and a value in the keyword map, and a catch-all-positional value
\* comes after the values of all the positional parameters; so the call
\* func(*pos, **kwd) binds every parameter once and raises no TypeError.
C19_AsStated ==
    AllLoaded =>
        LET f == func.sig
            npos == Len(f.args)
        IN  /\ \A i \in 1..npos :
                  arg_loaders[i].cls = "PosArgLoader" => PosIndex(i) = i
            /\ \A i \in 1..npos :
                  f.args[i].name \in DOMAIN kwd => Len(pos) < i
            /\ f.varargs # <<>> /\ Len(pos) > PosIndex(npos) =>
                  PosIndex(npos) = npos
            /\ exc # "TypeError"


====
